---- MODULE Spec2Model ----
(***************************************************************************)
(* Bar-by-bar execution simulation engine of the trading bot              *)
(* (src/src/backtest/engine.py, backtest) with its position sizer         *)
(* (src/src/risk/position_sizing.py, atr_position_size).                  *)
(*                                                                         *)
(* Floats are modelled as exact rationals <<n, d>> (d > 0, lowest terms); *)
(* the float NaN is the pair <<0, 0>>.  One loop iteration of backtest is *)
(* three steps (mark-to-market, exit logic, entry logic), so that the     *)
(* order of the steps inside a bar is visible in the behaviours.          *)
(***************************************************************************)
EXTENDS Integers, Sequences, FiniteSets, TLC

(* ------------------------------ bounds -------------------------------- *)
\* longest price series (len(df)) explored
MaxBars == 3
\* close prices are drawn from 1..MaxPrice
MaxPrice == 3
\* longest rising price series 100, 101, 102, ... explored
MaxRisingBars == 5

(* ------------------------- rational arithmetic ------------------------ *)
Abs(x) == IF x < 0 THEN -x ELSE x

RECURSIVE GCD(_, _)
GCD(x, y) == IF y = 0 THEN x ELSE GCD(y, x % y)

\* the rational n/d in lowest terms with a positive denominator (d # 0)
\* (here and below an operator binds its arguments to their values first,
\* u \in {x}, so that each argument is computed once)
Norm(n, d) ==
    CHOOSE r \in {LET g == GCD(Abs(u), Abs(v))
                      sg == IF v < 0 THEN -1 ELSE 1
                  IN  <<(sg * u) \div g, (sg * v) \div g>> :
                      u \in {n}, v \in {d}} : TRUE

R(k) == <<k, 1>>
Zero == R(0)
One == R(1)
Half == <<1, 2>>
NaN == <<0, 0>>
isnan(x) == x[2] = 0

RAdd(x, y) ==
    CHOOSE r \in {Norm(u[1] * v[2] + v[1] * u[2], u[2] * v[2]) :
                      u \in {x}, v \in {y}} : TRUE
RNeg(x) == CHOOSE r \in {<<-u[1], u[2]>> : u \in {x}} : TRUE
RSub(x, y) == RAdd(x, RNeg(y))
RMul(x, y) ==
    CHOOSE r \in {Norm(u[1] * v[1], u[2] * v[2]) : u \in {x}, v \in {y}} : TRUE
\* x / y for y # 0
RDiv(x, y) ==
    CHOOSE r \in {Norm(u[1] * v[2], u[2] * v[1]) : u \in {x}, v \in {y}} : TRUE
RAbs(x) == CHOOSE r \in {<<Abs(u[1]), u[2]>> : u \in {x}} : TRUE

\* x <= y, compared by integer parts and then by the reciprocals of the
\* fractional parts, so that no cross product of a tiny epsilon is formed
RECURSIVE RLe(_, _)
RLe(x, y) ==
    \E u \in {x}, v \in {y} :
        LET fx == u[1] \div u[2]
            fy == v[1] \div v[2]
            rx == u[1] % u[2]
            ry == v[1] % v[2]
        IN  IF fx # fy THEN fx < fy
            ELSE IF rx = 0 THEN TRUE
            ELSE IF ry = 0 THEN FALSE
            ELSE RLe(<<v[2], ry>>, <<u[2], rx>>)

RLt(x, y) == ~RLe(y, x)
RGe(x, y) == RLe(y, x)
RGt(x, y) == ~RLe(x, y)
RMax(x, y) == CHOOSE r \in {IF RLe(u, v) THEN v ELSE u : u \in {x}, v \in {y}} : TRUE

(* ---------------------------- input domains --------------------------- *)
Prices == {R(k) : k \in 1..MaxPrice}
Signals == {-1, 0, 1}
\* volatility estimates: unavailable (NaN), zero, or one price unit
Atrs == {NaN, Zero, One}
InitialCapitals == {R(4)}
Risks == {RNeg(Half), Half}
StopMults == {One}
TpMults == {RNeg(One), One}
Fees == {RNeg(Half), Zero, Half}
Slips == {RNeg(Half), Zero, Half}
\* fee rates of a pair of runs that differ in fee_pct only
PairFees == {Zero, <<1, 4>>, Half}
\* lengths of the signal and volatility series, relative to len(df)
LenDeltas == {-1, 0, 1}

\* configurations of the rising-price runs: positive capital and risk, cost
\* rates of at most 1/128
RisingCapitals == {R(4), R(100)}
RisingRisks == {<<1, 4>>, Half, One}
RisingFees == {Zero, <<1, 200>>, <<1, 128>>}
RisingSlips == {Zero, <<1, 200>>}

\* arguments of a direct call of the position sizer
SizerBalances == {R(-4), R(-1), Zero, One, R(4)}
SizerRisks == {RNeg(One), RNeg(Half), Zero, Half, One}
SizerAtrs == {RNeg(One), Zero, Half, One, R(2)}
SizerStopMults == {RNeg(One), Zero, One, R(2)}
SizerPrices == {Zero} \cup Prices

\* the configurations explored: all three rates non-negative, or one of
\* them negative and the other costs zero
Explored(risk, fee, slip) ==
    \/ RGe(risk, Zero) /\ RGe(fee, Zero) /\ RGe(slip, Zero)
    \/ RLt(risk, Zero) /\ fee = Zero /\ slip = Zero
    \/ RGe(risk, Zero) /\ RLt(fee, Zero) /\ slip = Zero
    \/ RGe(risk, Zero) /\ fee = Zero /\ RLt(slip, Zero)

(* ------------------------------- state -------------------------------- *)
VARIABLES
    initial_capital, risk_per_trade, atr_stop_mult, tp_mult, fee_pct, slippage_pct,
    nBars, nSig, nAtr,
    pc, i, p, s, a,
    balance, equity_curve, position, trades, exit_reason, entries,
    fee_pct2, balance2, equity_curve2, position2, trades2,
    has_atr, scenario, vol_seen, sig_seen, sized

\* the arguments of the call: the configuration, the lengths of the series,
\* whether ind has an "atr" column, and the family the series are drawn from
params == <<initial_capital, risk_per_trade, atr_stop_mult, tp_mult, fee_pct,
            slippage_pct, nBars, nSig, nAtr, has_atr, scenario>>
\* history of the series read so far: a volatility estimate was available
\* on some bar, the signal was nonzero on some bar
seen == <<vol_seen, sig_seen>>
\* the second run of a pair of runs that differ in fee_pct only
run2 == <<fee_pct2, balance2, equity_curve2, position2, trades2>>

\* LiveBroker.create_order and LiveBroker._retry: the broker's settings, the
\* locals of the two calls, and the history of the attempts (what each call of
\* the exchange returned or raised, the clientOrderId it carried, the sleeps)
VARIABLES
    bk_pc, retries, backoff, caller_params, order_params, delay, retry_i, last,
    calls, attempt_ids, slept, ret, order, raised

broker == <<bk_pc, retries, backoff, caller_params, order_params, delay,
            retry_i, last, calls, attempt_ids, slept, ret, order, raised>>

\* the trading loop of live.py: whether it runs, last_order, and the history
\* of its iterations
VARIABLES live_pc, live_last_order, live_log

live == <<live_pc, live_last_order, live_log>>

\* the loop of auto_trader.py: the risk settings, whether the loop runs, its
\* four globals (last_order, entry_price, stop_loss, take_profit), the number of iterations begun and the record of the latest
VARIABLES
    stop_loss_pct, take_profit_pct, auto_pc, auto_last_order, auto_entry_price,
    auto_stop_loss, auto_take_profit, auto_n, auto_iter

auto == <<stop_loss_pct, take_profit_pct, auto_pc, auto_last_order, auto_entry_price,
          auto_stop_loss, auto_take_profit, auto_n, auto_iter>>

\* calls of normalize_fee_slippage: the dict passed, as it was at the call and
\* as it is now, the dict returned, and the dict returned for that dict
VARIABLES cfg_pc, cfg_orig, cfg_in, cfg_out, cfg_out2

config == <<cfg_pc, cfg_orig, cfg_in, cfg_out, cfg_out2>>

\* the programs other than backtest
others == <<broker, live, auto, config>>

\* backtest and the position sizer
engine == <<params, pc, i, p, s, a, balance, equity_curve, position, trades,
            exit_reason, entries, run2, seen, sized>>

vars == <<engine, others>>

None == [side |-> 0]
Eps8 == <<1, 100000000>>
Eps9 == <<1, 1000000000>>

(* --------------------------- position sizer --------------------------- *)
\* mutant: the quantity is returned without the floor at 0
atr_position_size_unclamped(bal, risk, atr, price, stop_mult) ==
    LET risk_per_unit == RMax(Eps8, RMul(atr, stop_mult))
        risk_amount == RMul(bal, risk)
    IN  RDiv(risk_amount, risk_per_unit)

\* mutant: the risk per unit is scaled by the price
atr_position_size_notional(bal, risk, atr, price, stop_mult) ==
    LET risk_per_unit == RMax(Eps8, RMul(RMul(atr, stop_mult), price))
        risk_amount == RMul(bal, risk)
        qty == RDiv(risk_amount, risk_per_unit)
    IN  RMax(Zero, qty)

\* mutant: the magnitude of the quantity is returned
atr_position_size_abs(bal, risk, atr, price, stop_mult) ==
    LET risk_per_unit == RMax(Eps8, RMul(atr, stop_mult))
        risk_amount == RMul(bal, risk)
    IN  RAbs(RDiv(risk_amount, risk_per_unit))

atr_position_size(bal, risk, atr, price, stop_mult) ==
    LET risk_per_unit == RMax(Eps8, RMul(atr, stop_mult))
        risk_amount == RMul(bal, risk)
        qty == RDiv(risk_amount, risk_per_unit)
    IN  RMax(Zero, qty)

(* ------------------------------ helpers ------------------------------- *)
\* mutant: the exit fee is charged to the balance a second time
RealizeLessFee(bal, pos, price, fee, slip) ==
    LET exit_price == IF pos.side = 1 THEN RMul(price, RSub(One, slip))
                      ELSE RMul(price, RAdd(One, slip))
        gross == RMul(RMul(RSub(exit_price, pos.entry_price_net), pos.qty),
                      R(pos.side))
        f == RMul(RMul(RAbs(pos.qty), exit_price), fee)
    IN  RSub(RSub(RAdd(bal, gross), f), f)

\* mutant: the unrealized mark is taken against the fee-shifted cost basis
MarkToMarketNet(pos, bal, price) ==
    IF pos # None
    THEN RAdd(bal, RMul(RMul(RSub(price, pos.entry_price_net), pos.qty), R(pos.side)))
    ELSE bal

\* the value appended to the equity curve at the top of a bar
MarkToMarket(pos, bal, price) ==
    IF pos # None
    THEN RAdd(bal, RMul(RMul(RSub(price, pos.entry_price), pos.qty), R(pos.side)))
    ELSE bal

StopHit(pos, price) ==
    \/ pos.side = 1 /\ RLe(price, pos.stop)
    \/ pos.side = -1 /\ RGe(price, pos.stop)

TpHit(pos, price) ==
    \/ pos.side = 1 /\ RGe(price, pos.tp)
    \/ pos.side = -1 /\ RLe(price, pos.tp)

\* mutant: take-profit is tested before the stop
ExitReasonTpFirst(pos, price) ==
    IF TpHit(pos, price) THEN "tp"
    ELSE IF StopHit(pos, price) THEN "stop"
    ELSE "none"

ExitReason(pos, price) ==
    IF StopHit(pos, price) THEN "stop"
    ELSE IF TpHit(pos, price) THEN "tp"
    ELSE "none"

\* mutant: the exit fills on the same side of the close as the entry
ExitPriceFavourable(side, price, slip) ==
    IF side = 1 THEN RMul(price, RAdd(One, slip)) ELSE RMul(price, RSub(One, slip))

ExitPrice(side, price, slip) ==
    IF side = 1 THEN RMul(price, RSub(One, slip)) ELSE RMul(price, RAdd(One, slip))

EntryPrice(side, price, slip) ==
    IF side = 1 THEN RMul(price, RAdd(One, slip)) ELSE RMul(price, RSub(One, slip))

Fee(qty, price, fee) == RMul(RMul(RAbs(qty), price), fee)

\* mutant: the exit fee is not taken out of the realized pnl
ExitPnlNoFee(pos, price, fee, slip) ==
    LET exit_price == IF pos.side = 1 THEN RMul(price, RSub(One, slip))
                      ELSE RMul(price, RAdd(One, slip))
    IN  RMul(RMul(RSub(exit_price, pos.entry_price_net), pos.qty), R(pos.side))

ExitPnl(pos, price, fee, slip) ==
    LET exit_price == ExitPrice(pos.side, price, slip)
    IN  RSub(RMul(RMul(RSub(exit_price, pos.entry_price_net), pos.qty), R(pos.side)),
             Fee(pos.qty, exit_price, fee))

TradeResult(pos, idx, price, cap, fee, slip) ==
    LET pnl == ExitPnl(pos, price, fee, slip)
    IN  [entry_idx |-> pos.entry_idx, exit_idx |-> idx, side |-> pos.side,
         entry_price |-> pos.entry_price,
         exit_price |-> ExitPrice(pos.side, price, slip),
         qty |-> pos.qty, pnl |-> pnl, ret |-> RDiv(pnl, RMax(Eps9, cap))]

\* mutant: the entry fee shifts the cost basis upwards for shorts too
NewPositionUnsignedFee(side, qty, atr, price, idx, sm, tpm, fee, slip) ==
    LET entry_price == IF side = 1 THEN RMul(price, RAdd(One, slip))
                       ELSE RMul(price, RSub(One, slip))
        f == RMul(RMul(RAbs(qty), entry_price), fee)
        dist == RMul(atr, sm)
    IN  [side |-> side, qty |-> qty, entry_price |-> entry_price,
         entry_price_net |-> RAdd(entry_price, RDiv(f, RMax(Eps9, RAbs(qty)))),
         stop |-> RSub(entry_price, RMul(R(side), dist)),
         tp |-> RAdd(entry_price, RMul(R(side), RMul(dist, tpm))),
         entry_idx |-> idx]

\* mutant: the stop and the take-profit are laid on the wrong sides of the entry
NewPositionSwapped(side, qty, atr, price, idx, sm, tpm, fee, slip) ==
    LET entry_price == IF side = 1 THEN RMul(price, RAdd(One, slip))
                       ELSE RMul(price, RSub(One, slip))
        f == RMul(RMul(RAbs(qty), entry_price), fee)
        dist == RMul(atr, sm)
    IN  [side |-> side, qty |-> qty, entry_price |-> entry_price,
         entry_price_net |->
             RAdd(entry_price, RMul(RDiv(f, RMax(Eps9, RAbs(qty))), R(side))),
         stop |-> RAdd(entry_price, RMul(R(side), dist)),
         tp |-> RSub(entry_price, RMul(R(side), RMul(dist, tpm))),
         entry_idx |-> idx]

\* mutant: the stop lies one volatility unit from the entry, whatever the
\* stop multiplier
NewPositionAtrStop(side, qty, atr, price, idx, sm, tpm, fee, slip) ==
    LET entry_price == EntryPrice(side, price, slip)
        f == Fee(qty, entry_price, fee)
        dist == RMul(atr, sm)
    IN  [side |-> side, qty |-> qty, entry_price |-> entry_price,
         entry_price_net |->
             RAdd(entry_price, RMul(RDiv(f, RMax(Eps9, RAbs(qty))), R(side))),
         stop |-> RSub(entry_price, RMul(R(side), atr)),
         tp |-> RAdd(entry_price, RMul(R(side), RMul(dist, tpm))),
         entry_idx |-> idx]

NewPosition(side, qty, atr, price, idx, sm, tpm, fee, slip) ==
    LET entry_price == EntryPrice(side, price, slip)
        f == Fee(qty, entry_price, fee)
        dist == RMul(atr, sm)
    IN  [side |-> side, qty |-> qty, entry_price |-> entry_price,
         entry_price_net |->
             RAdd(entry_price, RMul(RDiv(f, RMax(Eps9, RAbs(qty))), R(side))),
         stop |-> RSub(entry_price, RMul(R(side), dist)),
         tp |-> RAdd(entry_price, RMul(R(side), RMul(dist, tpm))),
         entry_idx |-> idx]

\* mutant: the pnl of a short is added to the balance with the sign of a long
RealizeUnsigned(bal, pos, price, fee, slip) ==
    LET exit_price == ExitPrice(pos.side, price, slip)
    IN  RAdd(bal, RSub(RMul(RSub(exit_price, pos.entry_price_net), pos.qty),
                       Fee(pos.qty, exit_price, fee)))

\* the balance after a position is realized
Realize(bal, pos, price, fee, slip) == RAdd(bal, ExitPnl(pos, price, fee, slip))

\* mutant: the equity value of a FLAT bar is not appended
MarkEquityOpenOnly(curve, pos, bal, price) ==
    IF pos # None THEN Append(curve, MarkToMarket(pos, bal, price)) ELSE curve

\* the equity curve after the mark-to-market of a bar
MarkEquity(curve, pos, bal, price) == Append(curve, MarkToMarket(pos, bal, price))

\* mutant: an unavailable estimate is replaced by a default of one unit
EntryAtrFilled(atr) == IF ~isnan(atr) THEN atr ELSE One

\* the volatility used for the entry decision: NaN counts as 0.0
EntryAtr(atr) == IF ~isnan(atr) THEN atr ELSE Zero

(* ------------------------------ actions ------------------------------- *)
(* ------------------------------ dicts --------------------------------- *)
\* a dict over a fixed set of keys is a function on that set; a key the dict
\* does not hold maps to Absent, and Python's None is the value "None"
Absent == "<absent>"
PyNone == "None"
\* bool(v) is False for None and for the empty string
Falsy(v) == v \in {PyNone, ""}

OrderKeys == {"id", "orderId"}
ParamKeys == {"clientOrderId"}
NoOrder == [k \in OrderKeys |-> Absent]
NoParams == [k \in ParamKeys |-> Absent]
NoExc == "NoExc"

\* no broker call is in progress
BrokerIdle ==
    /\ bk_pc = "idle"
    /\ retries = 0
    /\ backoff = Zero
    /\ caller_params = NoParams
    /\ order_params = NoParams
    /\ delay = Zero
    /\ retry_i = 0
    /\ last = NoExc
    /\ calls = <<>>
    /\ attempt_ids = <<>>
    /\ slept = <<>>
    /\ ret = NoOrder
    /\ order = NoOrder
    /\ raised = NoExc

\* live.py is not run
LiveIdle ==
    /\ live_pc = "idle"
    /\ live_last_order = PyNone
    /\ live_log = <<>>

\* None where a price is expected
Unset == <<-1, 0>>

\* the record of an iteration of auto_trader: the signal and the price, the
\* globals when it began, whether the trading logic was reached, and the
\* orders create_order was called with (side, reason, whether it returned)
AutoIteration(sig, price, reached, orders) ==
    [signal |-> sig, price |-> price, before |-> auto_last_order,
     stop |-> auto_stop_loss, tp |-> auto_take_profit, reached |-> reached,
     orders |-> orders]

NoIteration ==
    [signal |-> "none", price |-> Unset, before |-> PyNone, stop |-> Unset,
     tp |-> Unset, reached |-> FALSE, orders |-> <<>>]

\* auto_trader.py is not run
AutoIdle ==
    /\ stop_loss_pct = Zero
    /\ take_profit_pct = Zero
    /\ auto_pc = "idle"
    /\ auto_last_order = PyNone
    /\ auto_entry_price = Unset
    /\ auto_stop_loss = Unset
    /\ auto_take_profit = Unset
    /\ auto_n = 0
    /\ auto_iter = NoIteration

\* the keys normalize_fee_slippage reads or writes; a key a dict does not hold
\* maps to Missing
CfgKeys == {"fee_pct", "fee_rate", "fee", "commission", "fees", "slippage_pct",
            "slippage_bp", "slippage_bps", "slippage"}
Missing == <<-2, 0>>
EmptyCfg == [k \in CfgKeys |-> Missing]

\* normalize_fee_slippage is not called
ConfigIdle ==
    /\ cfg_pc = "idle"
    /\ cfg_orig = EmptyCfg
    /\ cfg_in = EmptyCfg
    /\ cfg_out = EmptyCfg
    /\ cfg_out2 = EmptyCfg

\* backtest alone is run
OthersIdle == BrokerIdle /\ LiveIdle /\ AutoIdle /\ ConfigIdle

\* the locals of backtest before the loop
InitRun ==
    /\ pc = "mtm"
    /\ i = 0
    /\ p = Zero
    /\ s = 0
    /\ a = Zero
    /\ balance = initial_capital
    /\ equity_curve = <<>>
    /\ position = None
    /\ trades = <<>>
    /\ exit_reason = "none"
    /\ entries = 0
    /\ vol_seen = FALSE
    /\ sig_seen = FALSE
    /\ sized = NaN

\* no second run is made
NoRun2 ==
    /\ fee_pct2 = fee_pct
    /\ balance2 = Zero
    /\ equity_curve2 = <<>>
    /\ position2 = None
    /\ trades2 = <<>>

\* no backtest is run
EngineIdle ==
    /\ initial_capital = Zero
    /\ risk_per_trade = Zero
    /\ atr_stop_mult = Zero
    /\ tp_mult = Zero
    /\ fee_pct = Zero
    /\ slippage_pct = Zero
    /\ nBars = 0
    /\ nSig = 0
    /\ nAtr = 0
    /\ has_atr = FALSE
    /\ scenario = "any"
    /\ pc = "idle"
    /\ i = 0
    /\ p = Zero
    /\ s = 0
    /\ a = Zero
    /\ balance = Zero
    /\ equity_curve = <<>>
    /\ position = None
    /\ trades = <<>>
    /\ exit_reason = "none"
    /\ entries = 0
    /\ vol_seen = FALSE
    /\ sig_seen = FALSE
    /\ sized = NaN
    /\ NoRun2

\* a call with series of matching lengths
Init ==
    /\ initial_capital \in InitialCapitals
    /\ risk_per_trade \in Risks
    /\ atr_stop_mult \in StopMults
    /\ tp_mult \in TpMults
    /\ fee_pct \in Fees
    /\ slippage_pct \in Slips
    /\ Explored(risk_per_trade, fee_pct, slippage_pct)
    /\ nBars \in 0..MaxBars
    /\ nSig = nBars
    /\ nAtr = nBars
    /\ has_atr \in BOOLEAN
    /\ scenario = "any"
    /\ InitRun
    /\ NoRun2
    /\ OthersIdle

\* a call whose signal and volatility series may be one shorter or one
\* longer than the price series, with a cost-free configuration
InitMismatch ==
    /\ initial_capital \in InitialCapitals
    /\ risk_per_trade = Half
    /\ atr_stop_mult \in StopMults
    /\ tp_mult \in TpMults
    /\ fee_pct = Zero
    /\ slippage_pct = Zero
    /\ nBars \in 0..MaxBars
    /\ nSig \in {nBars + d : d \in LenDeltas} \cap Nat
    /\ nAtr \in {nBars + d : d \in LenDeltas} \cap Nat
    /\ has_atr = TRUE
    /\ scenario = "any"
    /\ InitRun
    /\ NoRun2
    /\ OthersIdle

\* two calls on the same series with the same configuration except that
\* the second call has the larger fee_pct
InitPair ==
    /\ initial_capital \in InitialCapitals
    /\ risk_per_trade = One
    /\ atr_stop_mult \in StopMults
    /\ tp_mult \in TpMults
    /\ fee_pct \in PairFees
    /\ fee_pct2 \in PairFees
    /\ RLt(fee_pct, fee_pct2)
    /\ slippage_pct \in {Zero, Half}
    /\ nBars \in 0..MaxBars
    /\ nSig = nBars
    /\ nAtr = nBars
    /\ has_atr = TRUE
    /\ scenario = "any"
    /\ InitRun
    /\ balance2 = initial_capital
    /\ equity_curve2 = <<>>
    /\ position2 = None
    /\ trades2 = <<>>
    /\ OthersIdle

\* mutant: a missing "atr" column is filled with ones
MissingAtrOnes == One

\* the volatility of every bar when ind has no "atr" column: np.zeros
MissingAtr == Zero

\* the values bar i of the three series may hold
BarPrices ==
    IF scenario = "rising" THEN {R(100 + i)}
    ELSE IF scenario = "tiny" THEN {R(2)}
    ELSE IF scenario = "steep" THEN {Zero, One}
    ELSE Prices

BarSignals ==
    IF i >= nSig THEN {0}
    ELSE IF scenario = "rising" THEN {IF i = 0 THEN 1 ELSE 0}
    ELSE Signals

BarAtrs ==
    IF ~has_atr THEN {MissingAtr}
    ELSE IF i >= nAtr THEN {Zero}
    ELSE IF scenario = "rising" THEN {One}
    ELSE Atrs

\* mutant: the stop trails to the entry price once the close is beyond it
MarkStepTrailing ==
    /\ pc = "mtm"
    /\ i < nBars
    /\ p' \in BarPrices
    /\ s' \in BarSignals
    /\ a' \in BarAtrs
    /\ vol_seen' = (vol_seen \/ (has_atr /\ i < nAtr /\ ~isnan(a')))
    /\ sig_seen' = (sig_seen \/ s' # 0)
    /\ equity_curve' = MarkEquity(equity_curve, position, balance, p')
    /\ pc' = "exit"
    /\ position' =
           IF position # None
              /\ RGt(RMul(RSub(p', position.entry_price), R(position.side)), Zero)
           THEN [position EXCEPT !.stop = position.entry_price]
           ELSE position
    /\ UNCHANGED <<params, i, balance, trades, exit_reason, entries, sized>>

\* top of the loop body: read the bar and append the mark-to-market equity
MarkStep ==
    /\ pc = "mtm"
    /\ i < nBars
    /\ p' \in BarPrices
    /\ s' \in BarSignals
    /\ a' \in BarAtrs
    /\ vol_seen' = (vol_seen \/ (has_atr /\ i < nAtr /\ ~isnan(a')))
    /\ sig_seen' = (sig_seen \/ s' # 0)
    /\ equity_curve' = MarkEquity(equity_curve, position, balance, p')
    /\ pc' = "exit"
    /\ UNCHANGED <<params, i, balance, position, trades, exit_reason, entries, sized>>

Mark == MarkStep /\ UNCHANGED <<run2, others>>

\* mutant: the exit books the trade and keeps the position open
ExitStepKeepsPosition ==
    /\ pc = "exit"
    /\ exit_reason' = (IF position # None THEN ExitReason(position, p) ELSE exit_reason)
    /\ IF position # None /\ ExitReason(position, p) # "none"
       THEN /\ balance' = Realize(balance, position, p, fee_pct, slippage_pct)
            /\ trades' = Append(trades,
                   TradeResult(position, i, p, initial_capital, fee_pct, slippage_pct))
            /\ UNCHANGED position
       ELSE UNCHANGED <<balance, trades, position>>
    /\ pc' = "entry"
    /\ UNCHANGED <<params, i, p, s, a, equity_curve, entries, seen, sized>>

\* exit logic of the bar
ExitStep ==
    /\ pc = "exit"
    /\ exit_reason' = (IF position # None THEN ExitReason(position, p) ELSE exit_reason)
    /\ IF position # None /\ ExitReason(position, p) # "none"
       THEN /\ balance' = Realize(balance, position, p, fee_pct, slippage_pct)
            /\ trades' = Append(trades,
                   TradeResult(position, i, p, initial_capital, fee_pct, slippage_pct))
            /\ position' = None
       ELSE UNCHANGED <<balance, trades, position>>
    /\ pc' = "entry"
    /\ UNCHANGED <<params, i, p, s, a, equity_curve, entries, seen, sized>>

ExitCheck == ExitStep /\ UNCHANGED <<run2, others>>

\* mutant: a skipped entry leaves the loop instead of going on with the next bar
NextBarBreakOnSkip ==
    IF position = None /\ s # 0 /\ RLe(EntryAtr(a), Zero)
    THEN /\ pc' = "done"
         /\ UNCHANGED <<i, p, s, a, exit_reason>>
    ELSE /\ pc' = "mtm"
         /\ i' = i + 1
         /\ p' = Zero
         /\ s' = 0
         /\ a' = Zero
         /\ UNCHANGED exit_reason

\* the loop moves on to the next bar; the bar's inputs are read no more
NextBar ==
    /\ pc' = "mtm"
    /\ i' = i + 1
    /\ p' = Zero
    /\ s' = 0
    /\ a' = Zero
    /\ UNCHANGED exit_reason

\* IndexError leaves the loop and the function
Raise ==
    /\ pc' = "raised"
    /\ UNCHANGED <<i, p, s, a, exit_reason>>

\* mutant: only a negative quantity skips the entry
EntryForStrict(bal, fee) ==
    IF s = 0 THEN None
    ELSE IF RLe(EntryAtr(a), Zero) THEN None
    ELSE LET qty == atr_position_size(bal, risk_per_trade, EntryAtr(a), p,
                                      atr_stop_mult)
         IN  IF RLt(qty, Zero) THEN None
             ELSE NewPosition(s, qty, EntryAtr(a), p, i, atr_stop_mult, tp_mult,
                              fee, slippage_pct)

\* mutant: a zero signal is taken for a long entry
EntryForAnySignal(bal, fee) ==
    IF RLe(EntryAtr(a), Zero) THEN None
    ELSE LET side == IF s = -1 THEN -1 ELSE 1
             qty == atr_position_size(bal, risk_per_trade, EntryAtr(a), p,
                                      atr_stop_mult)
         IN  IF RLe(qty, Zero) THEN None
             ELSE NewPosition(side, qty, EntryAtr(a), p, i, atr_stop_mult, tp_mult,
                              fee, slippage_pct)

\* the position the entry logic builds on this bar from a balance and a fee
\* rate, or None when it skips the entry
EntryFor(bal, fee) ==
    IF s = 0 THEN None
    ELSE IF RLe(EntryAtr(a), Zero) THEN None
    ELSE LET qty == atr_position_size(bal, risk_per_trade, EntryAtr(a), p,
                                      atr_stop_mult)
         IN  IF RLe(qty, Zero) THEN None
             ELSE NewPosition(s, qty, EntryAtr(a), p, i, atr_stop_mult, tp_mult,
                              fee, slippage_pct)

\* mutant: no entry is considered on a bar that has just closed a position
EntryDecisionNoReopen ==
    IF trades # <<>> /\ trades[Len(trades)].exit_idx = i THEN None
    ELSE EntryFor(balance, fee_pct)

\* mutant: the entry is sized from the equity value of the bar, which marks
\* the position the bar began with
EntryDecisionOnMark == EntryFor(equity_curve[Len(equity_curve)], fee_pct)

EntryDecision == EntryFor(balance, fee_pct)

\* mutant: an opposite signal reverses the open position
FlatOrOpposite(pos) == pos = None \/ (s # 0 /\ pos.side # s)

\* mutant: the entry logic forgets that a position may be open
FlatAlways(pos) == TRUE

\* the entry logic runs only when no position is held
Flat(pos) == pos = None

\* the entry logic raises IndexError when it reads past a short series
EntryRaises ==
    /\ Flat(position)
    /\ \/ i >= nSig
       \/ s # 0 /\ i >= nAtr

\* mutant: the exit logic runs once more on the bar after a position is opened
EntryStepThenExit ==
    /\ pc = "entry"
    /\ IF EntryRaises
       THEN Raise /\ UNCHANGED <<position, entries>>
       ELSE IF Flat(position) /\ EntryDecision # None
            THEN /\ position' = EntryDecision
                 /\ entries' = entries + 1
                 /\ pc' = "exit"
                 /\ UNCHANGED <<i, p, s, a, exit_reason>>
            ELSE NextBar /\ UNCHANGED <<position, entries>>
    /\ UNCHANGED <<params, balance, equity_curve, trades, seen, sized>>

\* entry logic of the bar
EntryStep ==
    /\ pc = "entry"
    /\ IF EntryRaises
       THEN Raise /\ UNCHANGED <<position, entries>>
       ELSE /\ NextBar
            /\ IF Flat(position) /\ EntryDecision # None
               THEN position' = EntryDecision /\ entries' = entries + 1
               ELSE UNCHANGED <<position, entries>>
    /\ UNCHANGED <<params, balance, equity_curve, trades, seen, sized>>

EntryCheck == EntryStep /\ UNCHANGED <<run2, others>>

\* mutant: a position still open after the last bar is closed at its entry price
ReturnStepClosing ==
    /\ pc = "mtm"
    /\ i = nBars
    /\ pc' = "done"
    /\ IF position # None
       THEN /\ balance' = Realize(balance, position, position.entry_price, fee_pct,
                                  slippage_pct)
            /\ trades' = Append(trades, TradeResult(position, i - 1,
                                position.entry_price, initial_capital, fee_pct,
                                slippage_pct))
            /\ position' = None
       ELSE UNCHANGED <<balance, trades, position>>
    /\ UNCHANGED <<params, i, p, s, a, equity_curve, exit_reason, entries, seen,
                   sized>>

\* the loop is over: the equity series and the ledger are returned
ReturnStep ==
    /\ pc = "mtm"
    /\ i = nBars
    /\ pc' = "done"
    /\ UNCHANGED <<params, i, p, s, a, balance, equity_curve, position, trades,
                   exit_reason, entries, seen, sized>>

Return == ReturnStep /\ UNCHANGED <<run2, others>>

Next == Mark \/ ExitCheck \/ EntryCheck \/ Return

(* ------------------- the position sizer called alone ------------------ *)
(* ------------------------ the rising-price runs ----------------------- *)
\* close = 100, 101, 102, ..., one long signal at bar 0, atr = 1 on every
\* bar, stop multiplier 2 and take-profit multiplier 1
InitRising ==
    /\ initial_capital \in RisingCapitals
    /\ risk_per_trade \in RisingRisks
    /\ atr_stop_mult = R(2)
    /\ tp_mult = One
    /\ fee_pct \in RisingFees
    /\ slippage_pct \in RisingSlips
    /\ nBars \in 0..MaxRisingBars
    /\ nSig = nBars
    /\ nAtr = nBars
    /\ has_atr = TRUE
    /\ scenario = "rising"
    /\ InitRun
    /\ NoRun2
    /\ OthersIdle

SpecRising == InitRising /\ [][Next]_vars

(* ---------------------- runs with a tiny quantity --------------------- *)
\* one bar at close 2 with a risk fraction of 5e-10 of a capital of 1: the
\* sized quantity is below the 1e-9 floor of the entry fee per unit
InitTiny ==
    /\ initial_capital = One
    /\ risk_per_trade = <<1, 2000000000>>
    /\ atr_stop_mult = One
    /\ tp_mult \in TpMults
    /\ fee_pct \in {Zero, Half}
    /\ slippage_pct = Zero
    /\ nBars \in 0..1
    /\ nSig = nBars
    /\ nAtr = nBars
    /\ has_atr = TRUE
    /\ scenario = "tiny"
    /\ InitRun
    /\ NoRun2
    /\ OthersIdle

\* the runs of Spec together with the runs with a tiny quantity
SpecTiny == (Init \/ InitTiny) /\ [][Next]_vars

(* ---------------- runs with an inverted take-profit ------------------- *)
\* tp_mult = -3, which backtest accepts: the take-profit of a long lies below
\* its stop, that of a short above its stop
InitInverted ==
    /\ initial_capital \in InitialCapitals
    /\ risk_per_trade = Half
    /\ atr_stop_mult \in StopMults
    /\ tp_mult = R(-3)
    /\ fee_pct \in {Zero, Half}
    /\ slippage_pct = Zero
    /\ nBars \in 0..MaxBars
    /\ nSig = nBars
    /\ nAtr = nBars
    /\ has_atr = TRUE
    /\ scenario = "any"
    /\ InitRun
    /\ NoRun2
    /\ OthersIdle

SpecInverted == InitInverted /\ [][Next]_vars

(* ------------- runs with a capital below the 1e-9 floor ---------------- *)
\* up to two bars at close 2 with an initial capital of -2 and a risk fraction
\* of -1/2, which backtest accepts: the risk amount is 1, so positions are
\* opened, and the capital lies below the 1e-9 floor of the return
InitBelowFloor ==
    /\ initial_capital = R(-2)
    /\ risk_per_trade = RNeg(Half)
    /\ atr_stop_mult = One
    /\ tp_mult \in TpMults
    /\ fee_pct \in {Zero, Half}
    /\ slippage_pct = Zero
    /\ nBars \in 0..2
    /\ nSig = nBars
    /\ nAtr = nBars
    /\ has_atr = TRUE
    /\ scenario = "tiny"
    /\ InitRun
    /\ NoRun2
    /\ OthersIdle

\* the runs of Spec together with the runs with a capital below the floor
SpecBelowFloor == (Init \/ InitBelowFloor) /\ [][Next]_vars

(* ---------------- runs with a slippage rate above one ------------------ *)
\* closes of 0 or 1 and slippage_pct = 2, which backtest accepts: the fill
\* price of a short entry and of a long exit is the close times 1 - 2 = -1
InitSteep ==
    /\ initial_capital \in InitialCapitals
    /\ risk_per_trade = Half
    /\ atr_stop_mult \in StopMults
    /\ tp_mult \in TpMults
    /\ fee_pct \in {Zero, Half}
    /\ slippage_pct = R(2)
    /\ nBars \in 0..MaxBars
    /\ nSig = nBars
    /\ nAtr = nBars
    /\ has_atr = TRUE
    /\ scenario = "steep"
    /\ InitRun
    /\ NoRun2
    /\ OthersIdle

SpecSteep == InitSteep /\ [][Next]_vars

(* ------------- runs with several stop multipliers and risks ------------ *)
BudgetRisks == {<<1, 4>>, Half}
BudgetStopMults == {Half, R(2)}

\* non-negative cost rates, a stop multiplier of 1/2 or 2 and a risk fraction
\* of 1/4 or 1/2
InitBudget ==
    /\ initial_capital \in InitialCapitals
    /\ risk_per_trade \in BudgetRisks
    /\ atr_stop_mult \in BudgetStopMults
    /\ tp_mult = One
    /\ fee_pct \in {Zero, Half}
    /\ slippage_pct \in {Zero, Half}
    /\ nBars \in 0..MaxBars
    /\ nSig = nBars
    /\ nAtr = nBars
    /\ has_atr = TRUE
    /\ scenario = "any"
    /\ InitRun
    /\ NoRun2
    /\ OthersIdle

SpecBudget == InitBudget /\ [][Next]_vars

\* a call of atr_position_size: balance, risk_per_trade, a, p and
\* atr_stop_mult hold its five arguments
InitSizer ==
    /\ balance \in SizerBalances
    /\ risk_per_trade \in SizerRisks
    /\ a \in SizerAtrs
    /\ p \in SizerPrices
    /\ atr_stop_mult \in SizerStopMults
    /\ initial_capital = balance
    /\ tp_mult = One
    /\ fee_pct = Zero
    /\ slippage_pct = Zero
    /\ nBars = 0
    /\ nSig = 0
    /\ nAtr = 0
    /\ has_atr = TRUE
    /\ scenario = "any"
    /\ pc = "size"
    /\ i = 0
    /\ s = 0
    /\ equity_curve = <<>>
    /\ position = None
    /\ trades = <<>>
    /\ exit_reason = "none"
    /\ entries = 0
    /\ vol_seen = FALSE
    /\ sig_seen = FALSE
    /\ sized = NaN
    /\ NoRun2
    /\ OthersIdle

\* the sizer computes and returns the quantity
SizeStep ==
    /\ pc = "size"
    /\ sized' = atr_position_size(balance, risk_per_trade, a, p, atr_stop_mult)
    /\ pc' = "sized"
    /\ UNCHANGED <<params, i, p, s, a, balance, equity_curve, position, trades,
                   exit_reason, entries, seen>>

Size == SizeStep /\ UNCHANGED <<run2, others>>

(* --------------------------- specifications --------------------------- *)

Spec == Init /\ [][Next]_vars

\* the interpreter keeps executing the loop: a step that can be taken is taken
SpecLive == Spec /\ WF_vars(Next)

SpecMismatch == InitMismatch /\ [][Next]_vars

(* ------------------ two runs in step on the same series ---------------- *)
PairMark ==
    /\ MarkStep
    /\ equity_curve2' = MarkEquity(equity_curve2, position2, balance2, p')
    /\ UNCHANGED <<fee_pct2, balance2, position2, trades2, others>>

PairExit ==
    /\ ExitStep
    /\ IF position2 # None /\ ExitReason(position2, p) # "none"
       THEN /\ balance2' = Realize(balance2, position2, p, fee_pct2, slippage_pct)
            /\ trades2' = Append(trades2,
                   TradeResult(position2, i, p, initial_capital, fee_pct2,
                               slippage_pct))
            /\ position2' = None
       ELSE UNCHANGED <<balance2, trades2, position2>>
    /\ UNCHANGED <<fee_pct2, equity_curve2, others>>

PairEntry ==
    /\ EntryStep
    /\ IF Flat(position2) /\ EntryFor(balance2, fee_pct2) # None
       THEN position2' = EntryFor(balance2, fee_pct2)
       ELSE UNCHANGED position2
    /\ UNCHANGED <<fee_pct2, balance2, equity_curve2, trades2, others>>

PairReturn == ReturnStep /\ UNCHANGED <<run2, others>>

NextPair == PairMark \/ PairExit \/ PairEntry \/ PairReturn

SpecPair == InitPair /\ [][NextPair]_vars

(* ----------------------------- LiveBroker ----------------------------- *)
MaxRetries == 3

\* settings of the broker and arguments of create_order
RetryCounts == 0..MaxRetries
Backoffs == {Half, One}
CallerParams == {[k \in ParamKeys |-> v] : v \in {Absent, PyNone, "my-1"}}
\* what new_client_order_id may return: the prefix and 16 hex digits of a uuid
GeneratedIds == {"bot-1", "bot-2"}
\* what the exchange may raise (subclasses of Exception) and return
Exceptions == {"NetworkError", "ExchangeError"}
Interrupt == "KeyboardInterrupt"
ExchangeOrders == [OrderKeys -> {Absent, PyNone, "x-1"}]

\* dict.get(key)
Get(d, k) == IF d[k] = Absent THEN PyNone ELSE d[k]

\* a call of create_order on a broker with the given retries and backoff
InitBroker ==
    /\ EngineIdle
    /\ LiveIdle
    /\ AutoIdle
    /\ ConfigIdle
    /\ bk_pc = "create_order"
    /\ retries \in RetryCounts
    /\ backoff \in Backoffs
    /\ caller_params \in CallerParams
    /\ order_params = NoParams
    /\ delay = Zero
    /\ retry_i = 0
    /\ last = NoExc
    /\ calls = <<>>
    /\ attempt_ids = <<>>
    /\ slept = <<>>
    /\ ret = NoOrder
    /\ order = NoOrder
    /\ raised = NoExc

\* create_order copies params, adds a clientOrderId when the key is missing and
\* enters _retry, which sets delay = backoff and last = None
CreateOrderCall ==
    /\ bk_pc = "create_order"
    /\ \E g \in GeneratedIds :
           order_params' = IF caller_params["clientOrderId"] = Absent
                           THEN [caller_params EXCEPT !["clientOrderId"] = g]
                           ELSE caller_params
    /\ delay' = backoff
    /\ last' = NoExc
    /\ retry_i' = 0
    /\ bk_pc' = "retry"
    /\ UNCHANGED <<retries, backoff, caller_params, calls, attempt_ids, slept,
                   ret, order, raised>>

\* an attempt returns: _retry returns what the exchange returned
AttemptReturns ==
    /\ bk_pc = "retry"
    /\ retry_i < retries
    /\ \E o \in ExchangeOrders : ret' = o
    /\ calls' = Append(calls, "ok")
    /\ attempt_ids' = Append(attempt_ids, order_params["clientOrderId"])
    /\ bk_pc' = "normalize"
    /\ UNCHANGED <<retries, backoff, caller_params, order_params, delay,
                   retry_i, last, slept, order, raised>>

\* mutant: a failed attempt is followed by a fresh clientOrderId
AttemptFailsNewId ==
    /\ bk_pc = "retry"
    /\ retry_i < retries
    /\ \E e \in Exceptions :
           /\ calls' = Append(calls, e)
           /\ last' = e
    /\ attempt_ids' = Append(attempt_ids, order_params["clientOrderId"])
    /\ \E g \in GeneratedIds :
           order_params' = [order_params EXCEPT !["clientOrderId"] = g]
    /\ slept' = Append(slept, delay)
    /\ delay' = RMul(delay, R(2))
    /\ retry_i' = retry_i + 1
    /\ UNCHANGED <<bk_pc, retries, backoff, caller_params, ret, order, raised>>

\* an attempt raises an Exception: it is kept in last, the loop sleeps for
\* delay, doubles it and goes on
AttemptFails ==
    /\ bk_pc = "retry"
    /\ retry_i < retries
    /\ \E e \in Exceptions :
           /\ calls' = Append(calls, e)
           /\ last' = e
    /\ attempt_ids' = Append(attempt_ids, order_params["clientOrderId"])
    /\ slept' = Append(slept, delay)
    /\ delay' = RMul(delay, R(2))
    /\ retry_i' = retry_i + 1
    /\ UNCHANGED <<bk_pc, retries, backoff, caller_params, order_params, ret,
                   order, raised>>

\* an attempt raises a BaseException that "except Exception" does not catch
AttemptInterrupted ==
    /\ bk_pc = "retry"
    /\ retry_i < retries
    /\ calls' = Append(calls, Interrupt)
    /\ attempt_ids' = Append(attempt_ids, order_params["clientOrderId"])
    /\ raised' = Interrupt
    /\ bk_pc' = "raised"
    /\ UNCHANGED <<retries, backoff, caller_params, order_params, delay,
                   retry_i, last, slept, ret, order>>

\* the loop is over: "raise last", a TypeError when last is still None
RetryExhausted ==
    /\ bk_pc = "retry"
    /\ retry_i >= retries
    /\ raised' = IF last = NoExc THEN "TypeError" ELSE last
    /\ bk_pc' = "raised"
    /\ UNCHANGED <<retries, backoff, caller_params, order_params, delay,
                   retry_i, last, calls, attempt_ids, slept, ret, order>>

\* order.get("id") or order.get("orderId") or params["clientOrderId"]
OrderId(o, prm) ==
    IF ~Falsy(Get(o, "id")) THEN Get(o, "id")
    ELSE IF ~Falsy(Get(o, "orderId")) THEN Get(o, "orderId")
    ELSE prm["clientOrderId"]

\* create_order stores the order id under "orderId" and returns the order
NormalizeOrder ==
    /\ bk_pc = "normalize"
    /\ order' = [ret EXCEPT !["orderId"] = OrderId(ret, order_params)]
    /\ bk_pc' = "returned"
    /\ UNCHANGED <<retries, backoff, caller_params, order_params, delay,
                   retry_i, last, calls, attempt_ids, slept, ret, raised>>

NextBroker ==
    \/ CreateOrderCall /\ UNCHANGED <<engine, live, auto, config>>
    \/ AttemptReturns /\ UNCHANGED <<engine, live, auto, config>>
    \/ AttemptFails /\ UNCHANGED <<engine, live, auto, config>>
    \/ AttemptInterrupted /\ UNCHANGED <<engine, live, auto, config>>
    \/ RetryExhausted /\ UNCHANGED <<engine, live, auto, config>>
    \/ NormalizeOrder /\ UNCHANGED <<engine, live, auto, config>>

SpecBroker == InitBroker /\ [][NextBroker]_vars

(* ------------------------- live.py trading loop ------------------------ *)
MaxIterations == 4

LiveSignals == {"buy", "sell", "hold"}

\* the record of an iteration: the signal, last_order before and after, the
\* side of the order create_order was called with ("none" when it was not
\* called) and whether the call returned
Iteration(sig, before, side, ok, after) ==
    [signal |-> sig, before |-> before, side |-> side, ok |-> ok,
     after |-> after]

InitLive ==
    /\ EngineIdle
    /\ BrokerIdle
    /\ AutoIdle
    /\ ConfigIdle
    /\ live_pc = "loop"
    /\ live_last_order = PyNone
    /\ live_log = <<>>

\* the price is missing ("continue"), or fetching the price, the candles or
\* the signal raises an Exception, which the outer handler prints
LiveNoSignal ==
    /\ live_pc = "loop"
    /\ Len(live_log) < MaxIterations
    /\ live_log' = Append(live_log,
           Iteration("none", live_last_order, "none", FALSE, live_last_order))
    /\ UNCHANGED <<live_pc, live_last_order>>

\* mutant: last_order is set before the buy order is sent
LiveBuyMarksFirst ==
    /\ live_pc = "loop"
    /\ Len(live_log) < MaxIterations
    /\ live_last_order = PyNone
    /\ \E ok \in BOOLEAN :
           /\ live_last_order' = "buy"
           /\ live_log' = Append(live_log,
                  Iteration("buy", live_last_order, "buy", ok,
                            live_last_order'))
    /\ UNCHANGED live_pc

\* a buy signal while last_order is None: create_order("buy") returns, and
\* last_order becomes "buy", or raises, and the failure is printed
LiveBuy ==
    /\ live_pc = "loop"
    /\ Len(live_log) < MaxIterations
    /\ live_last_order = PyNone
    /\ \E ok \in BOOLEAN :
           /\ live_last_order' = IF ok THEN "buy" ELSE live_last_order
           /\ live_log' = Append(live_log,
                  Iteration("buy", live_last_order, "buy", ok,
                            live_last_order'))
    /\ UNCHANGED live_pc

\* a sell signal while last_order is "buy": create_order("sell") returns, and
\* last_order becomes None, or raises
LiveSell ==
    /\ live_pc = "loop"
    /\ Len(live_log) < MaxIterations
    /\ live_last_order = "buy"
    /\ \E ok \in BOOLEAN :
           /\ live_last_order' = IF ok THEN PyNone ELSE live_last_order
           /\ live_log' = Append(live_log,
                  Iteration("sell", live_last_order, "sell", ok,
                            live_last_order'))
    /\ UNCHANGED live_pc

\* any other pair of signal and last_order: no order is sent
LiveNoTrade ==
    /\ live_pc = "loop"
    /\ Len(live_log) < MaxIterations
    /\ \E sig \in LiveSignals :
           /\ ~(sig = "buy" /\ live_last_order = PyNone)
           /\ ~(sig = "sell" /\ live_last_order = "buy")
           /\ live_log' = Append(live_log,
                  Iteration(sig, live_last_order, "none", FALSE,
                            live_last_order))
    /\ UNCHANGED <<live_pc, live_last_order>>

\* KeyboardInterrupt leaves the loop
LiveInterrupt ==
    /\ live_pc = "loop"
    /\ live_pc' = "stopped"
    /\ UNCHANGED <<live_last_order, live_log>>

NextLive ==
    \/ LiveNoSignal /\ UNCHANGED <<engine, broker, auto, config>>
    \/ LiveBuy /\ UNCHANGED <<engine, broker, auto, config>>
    \/ LiveSell /\ UNCHANGED <<engine, broker, auto, config>>
    \/ LiveNoTrade /\ UNCHANGED <<engine, broker, auto, config>>
    \/ LiveInterrupt /\ UNCHANGED <<engine, broker, auto, config>>

SpecLoop == InitLive /\ [][NextLive]_vars

(* ------------------------- auto_trader.py loop ------------------------- *)
AutoPrices == {One, R(2), R(4)}
AutoStopLossPcts == {Zero, Half}
AutoTakeProfitPcts == {Zero, Half}

InitAuto ==
    /\ EngineIdle
    /\ BrokerIdle
    /\ LiveIdle
    /\ ConfigIdle
    /\ stop_loss_pct \in AutoStopLossPcts
    /\ take_profit_pct \in AutoTakeProfitPcts
    /\ auto_pc = "loop"
    /\ auto_last_order = PyNone
    /\ auto_entry_price = Unset
    /\ auto_stop_loss = Unset
    /\ auto_take_profit = Unset
    /\ auto_n = 0
    /\ auto_iter = NoIteration

\* the position is forgotten after a sell order
AutoClose ==
    /\ auto_last_order' = PyNone
    /\ auto_entry_price' = Unset
    /\ auto_stop_loss' = Unset
    /\ auto_take_profit' = Unset

\* create_order(side) is called for a reason; when it raises, the outer
\* handler prints the error and the globals are as they were
AutoOrder(sig, price, side, reason, ok) ==
    auto_iter' = AutoIteration(sig, price, TRUE, <<[side |-> side,
                                   reason |-> reason, ok |-> ok]>>)

\* fetching the price, the candles, the signal or the balance raises, or the
\* quantity cannot be computed: the outer handler prints the error
AutoError ==
    /\ auto_pc = "loop"
    /\ auto_n < MaxIterations
    /\ auto_n' = auto_n + 1
    /\ auto_iter' = AutoIteration("none", Unset, FALSE, <<>>)
    /\ UNCHANGED <<stop_loss_pct, take_profit_pct, auto_pc, auto_last_order,
                   auto_entry_price, auto_stop_loss, auto_take_profit>>

\* a buy signal while no order is remembered
AutoBuy ==
    /\ auto_pc = "loop"
    /\ auto_n < MaxIterations
    /\ ~(auto_last_order = "buy")
    /\ auto_n' = auto_n + 1
    /\ \E price \in AutoPrices, ok \in BOOLEAN :
           /\ AutoOrder("buy", price, "buy", "BUY", ok)
           /\ IF ok
              THEN /\ auto_last_order' = "buy"
                   /\ auto_entry_price' = price
                   /\ auto_stop_loss' = RMul(price, RSub(One, stop_loss_pct))
                   /\ auto_take_profit' = RMul(price, RAdd(One, take_profit_pct))
              ELSE UNCHANGED <<auto_last_order, auto_entry_price, auto_stop_loss, auto_take_profit>>
    /\ UNCHANGED <<stop_loss_pct, take_profit_pct, auto_pc>>

\* a sell signal while the buy is remembered
AutoSell ==
    /\ auto_pc = "loop"
    /\ auto_n < MaxIterations
    /\ auto_last_order = "buy"
    /\ auto_n' = auto_n + 1
    /\ \E price \in AutoPrices, ok \in BOOLEAN :
           /\ AutoOrder("sell", price, "sell", "SELL", ok)
           /\ IF ok THEN AutoClose
              ELSE UNCHANGED <<auto_last_order, auto_entry_price, auto_stop_loss, auto_take_profit>>
    /\ UNCHANGED <<stop_loss_pct, take_profit_pct, auto_pc>>

\* mutant: the take-profit is tested before the stop-loss
AutoRiskTpFirst ==
    /\ auto_pc = "loop"
    /\ auto_n < MaxIterations
    /\ auto_last_order = "buy"
    /\ auto_n' = auto_n + 1
    /\ \E sig \in {"buy", "hold"}, price \in AutoPrices, ok \in BOOLEAN :
           IF RGe(price, auto_take_profit)
           THEN /\ AutoOrder(sig, price, "sell", "TAKE_PROFIT", ok)
                /\ IF ok THEN AutoClose
                   ELSE UNCHANGED <<auto_last_order, auto_entry_price, auto_stop_loss,
                                    auto_take_profit>>
           ELSE IF RLe(price, auto_stop_loss)
           THEN /\ AutoOrder(sig, price, "sell", "STOP_LOSS", ok)
                /\ IF ok THEN AutoClose
                   ELSE UNCHANGED <<auto_last_order, auto_entry_price, auto_stop_loss,
                                    auto_take_profit>>
           ELSE /\ auto_iter' = AutoIteration(sig, price, TRUE, <<>>)
                /\ UNCHANGED <<auto_last_order, auto_entry_price, auto_stop_loss, auto_take_profit>>
    /\ UNCHANGED <<stop_loss_pct, take_profit_pct, auto_pc>>

\* no buy and no sell signal acted on while the buy is remembered: the
\* stop-loss is tested, then the take-profit, else the position is held
AutoRisk ==
    /\ auto_pc = "loop"
    /\ auto_n < MaxIterations
    /\ auto_last_order = "buy"
    /\ auto_n' = auto_n + 1
    /\ \E sig \in {"buy", "hold"}, price \in AutoPrices, ok \in BOOLEAN :
           IF RLe(price, auto_stop_loss)
           THEN /\ AutoOrder(sig, price, "sell", "STOP_LOSS", ok)
                /\ IF ok THEN AutoClose
                   ELSE UNCHANGED <<auto_last_order, auto_entry_price, auto_stop_loss,
                                    auto_take_profit>>
           ELSE IF RGe(price, auto_take_profit)
           THEN /\ AutoOrder(sig, price, "sell", "TAKE_PROFIT", ok)
                /\ IF ok THEN AutoClose
                   ELSE UNCHANGED <<auto_last_order, auto_entry_price, auto_stop_loss,
                                    auto_take_profit>>
           ELSE /\ auto_iter' = AutoIteration(sig, price, TRUE, <<>>)
                /\ UNCHANGED <<auto_last_order, auto_entry_price, auto_stop_loss, auto_take_profit>>
    /\ UNCHANGED <<stop_loss_pct, take_profit_pct, auto_pc>>

\* a sell or hold signal while no order is remembered: nothing is sent
AutoNoTrade ==
    /\ auto_pc = "loop"
    /\ auto_n < MaxIterations
    /\ ~(auto_last_order = "buy")
    /\ auto_n' = auto_n + 1
    /\ \E sig \in {"sell", "hold"}, price \in AutoPrices :
           auto_iter' = AutoIteration(sig, price, TRUE, <<>>)
    /\ UNCHANGED <<stop_loss_pct, take_profit_pct, auto_pc, auto_last_order,
                   auto_entry_price, auto_stop_loss, auto_take_profit>>

\* KeyboardInterrupt leaves the loop
AutoInterrupt ==
    /\ auto_pc = "loop"
    /\ auto_pc' = "stopped"
    /\ UNCHANGED <<stop_loss_pct, take_profit_pct, auto_last_order, auto_entry_price,
                   auto_stop_loss, auto_take_profit, auto_n, auto_iter>>

NextAuto ==
    \/ AutoError /\ UNCHANGED <<engine, broker, live, config>>
    \/ AutoBuy /\ UNCHANGED <<engine, broker, live, config>>
    \/ AutoSell /\ UNCHANGED <<engine, broker, live, config>>
    \/ AutoRisk /\ UNCHANGED <<engine, broker, live, config>>
    \/ AutoNoTrade /\ UNCHANGED <<engine, broker, live, config>>
    \/ AutoInterrupt /\ UNCHANGED <<engine, broker, live, config>>

SpecAuto == InitAuto /\ [][NextAuto]_vars

(* ----------------------- normalize_fee_slippage ----------------------- *)
\* values of the fee and slippage keys; fee_pct and slippage_pct may also
\* hold None
CfgVals == {One, R(25)}
CfgDicts ==
    {c \in [CfgKeys -> CfgVals \cup {Missing, Unset}] :
        \A k \in CfgKeys \ {"fee_pct", "slippage_pct"} : c[k] # Unset}

\* the first of the keys, in the order of the sequence, that the dict holds
RECURSIVE FirstPresent(_, _)
FirstPresent(d, ks) ==
    IF ks = <<>> THEN "none"
    ELSE IF d[Head(ks)] # Missing THEN Head(ks)
    ELSE FirstPresent(d, Tail(ks))

\* mutant: slippage_bps is looked up before slippage_bp
normalize_fee_slippage_bps_first(cfg) ==
    LET fk == FirstPresent(cfg, <<"fee_rate", "fee", "commission", "fees">>)
        out1 == IF cfg["fee_pct"] = Missing /\ fk # "none"
                THEN [cfg EXCEPT !["fee_pct"] = cfg[fk]]
                ELSE cfg
    IN  IF out1["slippage_pct"] # Missing THEN out1
        ELSE IF out1["slippage_bps"] # Missing
        THEN [out1 EXCEPT !["slippage_pct"] =
                              RDiv(out1["slippage_bps"], R(10000))]
        ELSE IF out1["slippage_bp"] # Missing
        THEN [out1 EXCEPT !["slippage_pct"] =
                              RDiv(out1["slippage_bp"], R(10000))]
        ELSE IF out1["slippage"] # Missing
        THEN [out1 EXCEPT !["slippage_pct"] = out1["slippage"]]
        ELSE out1

\* the dict normalize_fee_slippage returns for cfg
normalize_fee_slippage(cfg) ==
    LET fk == FirstPresent(cfg, <<"fee_rate", "fee", "commission", "fees">>)
        out1 == IF cfg["fee_pct"] = Missing /\ fk # "none"
                THEN [cfg EXCEPT !["fee_pct"] = cfg[fk]]
                ELSE cfg
    IN  IF out1["slippage_pct"] # Missing THEN out1
        ELSE IF out1["slippage_bp"] # Missing
        THEN [out1 EXCEPT !["slippage_pct"] =
                              RDiv(out1["slippage_bp"], R(10000))]
        ELSE IF out1["slippage_bps"] # Missing
        THEN [out1 EXCEPT !["slippage_pct"] =
                              RDiv(out1["slippage_bps"], R(10000))]
        ELSE IF out1["slippage"] # Missing
        THEN [out1 EXCEPT !["slippage_pct"] = out1["slippage"]]
        ELSE out1

InitConfig ==
    /\ EngineIdle
    /\ BrokerIdle
    /\ LiveIdle
    /\ AutoIdle
    /\ cfg_pc = "call"
    /\ cfg_in \in CfgDicts
    /\ cfg_orig = cfg_in
    /\ cfg_out = EmptyCfg
    /\ cfg_out2 = EmptyCfg

\* the function is applied to the caller's dict, which it copies
Normalize ==
    /\ cfg_pc = "call"
    /\ cfg_out' = normalize_fee_slippage(cfg_in)
    /\ cfg_pc' = "once"
    /\ UNCHANGED <<cfg_orig, cfg_in, cfg_out2>>

\* the function is applied to the dict it returned
NormalizeAgain ==
    /\ cfg_pc = "once"
    /\ cfg_out2' = normalize_fee_slippage(cfg_out)
    /\ cfg_pc' = "twice"
    /\ UNCHANGED <<cfg_orig, cfg_in, cfg_out>>

NextConfig ==
    \/ Normalize /\ UNCHANGED <<engine, broker, live, auto>>
    \/ NormalizeAgain /\ UNCHANGED <<engine, broker, live, auto>>

SpecConfig == InitConfig /\ [][NextConfig]_vars

(* ------------------------------- claims -------------------------------- *)
Last(seq) == seq[Len(seq)]

RECURSIVE SumPnl(_)
SumPnl(ledger) ==
    IF ledger = <<>> THEN Zero
    ELSE RAdd(SumPnl(SubSeq(ledger, 1, Len(ledger) - 1)), Last(ledger).pnl)

\* a position was closed on the bar being processed
ExitedThisBar == trades # <<>> /\ Last(trades).exit_idx = i

\* C1: the positions opened and not yet closed number 0 when the state is
\* FLAT and 1 when it is OPEN: two positions are never held at once,
\* whatever the signals, prices and volatility values.
C1_AtMostOnePosition ==
    entries - Len(trades) = (IF position = None THEN 0 ELSE 1)

\* an entry signal with a usable volatility arrives while a position is open
C1_Witness ==
    /\ pc = "entry"
    /\ position # None
    /\ s # 0
    /\ a = One
    /\ RGt(risk_per_trade, Zero)

\* C2: the balance changes only in a step that appends a TradeResult, and
\* then by exactly that trade's pnl; every other step (mark-to-market,
\* entry, return) leaves the balance and the ledger unchanged.
C2_BalanceContinuity ==
    [][IF Len(trades') = Len(trades) + 1
       THEN /\ SubSeq(trades', 1, Len(trades)) = trades
            /\ balance' = RAdd(balance, Last(trades').pnl)
       ELSE trades' = trades /\ balance' = balance]_vars

\* a trade has moved the balance and a position has been opened since
C2_Witness ==
    /\ trades # <<>>
    /\ balance # initial_capital
    /\ position # None
    /\ pc = "exit"

\* C3: the equity value of bar i is appended by the first step of the bar
\* from the position and balance the bar started with, as balance +
\* (close - entry_price) * qty * side, or the balance when FLAT; the exit
\* and entry steps of the bar never touch the equity curve.
C3_MarkFirst ==
    [][/\ (pc = "mtm" /\ pc' = "exit") =>
            equity_curve' = Append(equity_curve,
                IF position = None THEN balance
                ELSE RAdd(balance,
                          RMul(RMul(RSub(p', position.entry_price), position.qty),
                               R(position.side))))
       /\ (pc \in {"exit", "entry"}) => equity_curve' = equity_curve]_vars

\* an exit was decided on this bar, its equity value is the mark of the
\* position at the close and not the realized balance
C3_Witness ==
    /\ pc = "entry"
    /\ ExitedThisBar
    /\ Len(equity_curve) = i + 1
    /\ equity_curve[i + 1] # balance
    /\ fee_pct # Zero

\* C4: when the stop condition and the take-profit condition of the open
\* position both hold at the close, the exit step records a stop exit.
C4_StopWinsTie ==
    [][(pc = "exit" /\ position # None /\ StopHit(position, p) /\ TpHit(position, p))
       => /\ exit_reason' = "stop"
          /\ Len(trades') = Len(trades) + 1
          /\ position' = None]_vars

\* a stop exit was recorded on a bar that closed exactly on the common
\* stop and take-profit level (tp_mult = -1, stop distance one unit)
C4_Witness ==
    /\ pc = "entry"
    /\ ExitedThisBar
    /\ exit_reason = "stop"
    /\ tp_mult = RNeg(One)
    /\ p = RSub(Last(trades).entry_price, R(Last(trades).side))

\* C5: after a stop exit on bar i with signal[i] # 0, a positive volatility
\* and a positive sized quantity, the entry step of bar i opens a position
\* with entry_idx = i while the ledger keeps the closed trade (exit_idx = i);
\* the mark-to-market of bar i+1 is taken on that new position.
C5_SameBarReopen ==
    [][/\ (/\ pc = "entry" /\ ExitedThisBar /\ exit_reason = "stop"
           /\ s # 0 /\ ~isnan(a) /\ RGt(a, Zero)
           /\ RGt(atr_position_size(balance, risk_per_trade, a, p, atr_stop_mult),
                  Zero))
          => /\ position' # None
             /\ position'.entry_idx = i
             /\ position'.side = s
             /\ trades' = trades
             /\ pc' = "mtm" /\ i' = i + 1
       /\ (/\ pc = "mtm" /\ pc' = "exit" /\ position # None
           /\ position.entry_idx = i - 1
           /\ trades # <<>> /\ Last(trades).exit_idx = i - 1)
          => Last(equity_curve') =
                 RAdd(balance,
                      RMul(RMul(RSub(p', position.entry_price), position.qty),
                           R(position.side)))]_vars

\* bar i-1 closed a position by a stop and opened a new one, and the equity
\* value of bar i shows the new position's unrealized mark
C5_Witness ==
    /\ pc = "exit"
    /\ position # None
    /\ position.entry_idx = i - 1
    /\ trades # <<>>
    /\ Last(trades).exit_idx = i - 1
    /\ exit_reason = "stop"
    /\ Last(equity_curve) # balance

\* C6 as stated: of two finished runs that differ in fee_pct only, the one
\* with the larger fee_pct has the strictly smaller total realized pnl, or
\* the same total when neither run made a trade.
C6_FeeMonotoneTotal ==
    pc = "done" =>
        \/ RLt(SumPnl(trades2), SumPnl(trades))
        \/ trades = <<>> /\ trades2 = <<>>

\* C6 amended: the two runs make their first trade on the same bars with the
\* same quantity, and the first trade's pnl is strictly smaller in the run
\* with the larger fee_pct; so the total realized pnl is strictly smaller as
\* long as the ledgers hold at most one trade, and equal with zero trades.
C6_FeeMonotoneFirstTrade ==
    /\ (trades = <<>>) <=> (trades2 = <<>>)
    /\ trades # <<>> =>
          /\ trades2[1].entry_idx = trades[1].entry_idx
          /\ trades2[1].exit_idx = trades[1].exit_idx
          /\ trades2[1].qty = trades[1].qty
          /\ RLt(trades2[1].pnl, trades[1].pnl)
    /\ (Len(trades) = 1 /\ Len(trades2) = 1) =>
          RLt(SumPnl(trades2), SumPnl(trades))

\* both runs have finished with exactly one closed trade each
C6_Witness ==
    /\ pc = "done"
    /\ Len(trades) = 1
    /\ Len(trades2) = 1
    /\ RLt(fee_pct, fee_pct2)

\* C7: the equity curve has one value per processed bar: i values between
\* bars, i + 1 inside bar i, and len(df) values when the run returns.
C7_EquityLength ==
    /\ pc = "done" => Len(equity_curve) = nBars
    /\ pc = "mtm" => Len(equity_curve) = i
    /\ pc \in {"exit", "entry"} => Len(equity_curve) = i + 1

\* a finished run of several bars that traded and also spent bars FLAT
C7_Witness ==
    /\ pc = "done"
    /\ nBars >= 2
    /\ trades # <<>>
    /\ equity_curve[1] = initial_capital

\* C8 as stated: a run whose signal or volatility series differs in length
\* from the price series processes no bar and never returns normally.
C8_MismatchRejectedFirst ==
    (nSig # nBars \/ nAtr # nBars) =>
        /\ pc # "done"
        /\ equity_curve = <<>>
        /\ entries = 0
        /\ trades = <<>>

\* C9 as stated: a run with a negative fee_pct, slippage_pct or
\* risk_per_trade processes no bar and never returns normally.
C9_NegativeConfigRejected ==
    (RLt(fee_pct, Zero) \/ RLt(slippage_pct, Zero) \/ RLt(risk_per_trade, Zero)) =>
        /\ pc # "done"
        /\ equity_curve = <<>>

\* C10: on a bar whose volatility is NaN or <= 0 the entry step opens no
\* position whatever the signal and goes on to the next bar without an
\* error; the bar's equity value has been appended and its exit check has
\* been made (a position still held meets neither exit condition).
C10_DataGap ==
    [][(pc = "entry" /\ (IF isnan(a) THEN TRUE ELSE RLe(a, Zero)))
       => /\ pc' = "mtm" /\ i' = i + 1
          /\ position' = position
          /\ entries' = entries
          /\ balance' = balance /\ trades' = trades
          /\ Len(equity_curve) = i + 1
          /\ position # None => ~StopHit(position, p) /\ ~TpHit(position, p)]_vars

\* a bar without a volatility estimate and with a nonzero signal has been
\* marked and has closed a position; its entry step is about to skip
C10_Witness ==
    /\ pc = "entry"
    /\ isnan(a)
    /\ s # 0
    /\ position = None
    /\ ExitedThisBar
    /\ Len(equity_curve) = i + 1

\* the quantity the sizer returns for the entry opportunity of the bar
SizedQty == atr_position_size(balance, risk_per_trade, EntryAtr(a), p, atr_stop_mult)

\* an entry opportunity: flat, a nonzero signal and a usable volatility
EntryOpportunity ==
    /\ pc = "entry"
    /\ position = None
    /\ s # 0
    /\ ~EntryRaises
    /\ RGt(EntryAtr(a), Zero)

\* C11: when the sizer returns a quantity <= 0 for an entry opportunity, the
\* bar opens no position: the state stays flat, the balance and the ledger are
\* unchanged, nothing is raised and the loop goes on with the next bar.
C11_DegenerateSizing ==
    [][(EntryOpportunity /\ RLe(SizedQty, Zero))
         => /\ position' = None
            /\ entries' = entries
            /\ balance' = balance
            /\ trades' = trades
            /\ pc' = "mtm"
            /\ i' = i + 1]_vars

\* an entry opportunity with a positive risk fraction after the balance was
\* lost: the sizer returns 0
C11_Witness ==
    /\ EntryOpportunity
    /\ RGt(risk_per_trade, Zero)
    /\ RLe(balance, Zero)
    /\ trades # <<>>
    /\ SizedQty = Zero

\* the runs of the engine together with the direct calls of the sizer
NextQty == Next \/ Size

SpecQty == (Init \/ InitSizer) /\ [][NextQty]_vars

\* C12: every value atr_position_size returns is >= 0, whatever the sign of
\* the balance, the risk fraction, the volatility or the stop multiplier, and
\* every TradeResult of the ledger and every open position has a quantity >= 0.
C12_NoNegativeQuantity ==
    /\ pc = "sized" => RGe(sized, Zero)
    /\ position # None => RGe(position.qty, Zero)
    /\ \A k \in 1..Len(trades) : RGe(trades[k].qty, Zero)

\* the sizer has returned for a negative balance and a positive risk fraction
C12_Witness ==
    /\ pc = "sized"
    /\ RLt(balance, Zero)
    /\ RGt(risk_per_trade, Zero)
    /\ RGt(RMul(a, atr_stop_mult), Zero)
    /\ sized = Zero

\* the run has returned with a position still open
OpenAtEnd == pc = "done" /\ position # None

\* the ledger and the balance ignore the position that is open at the end
UnclosedAtEnd ==
    /\ Len(trades) = entries - 1
    /\ \A k \in 1..Len(trades) : trades[k].entry_idx < position.entry_idx
    /\ balance = RAdd(initial_capital, SumPnl(trades))

\* C13 as stated: a position still open after the last bar produces no
\* TradeResult and leaves the balance alone, and only the last equity value
\* reflects its unrealized mark: the equity values of the earlier bars it was
\* held over are the plain balance.
C13_OnlyLastEquity ==
    OpenAtEnd =>
        /\ UnclosedAtEnd
        /\ \A j \in (position.entry_idx + 2)..(Len(equity_curve) - 1) :
               equity_curve[j] = balance

\* C13, amended: a position still open after the last bar is left unclosed:
\* returning appends no TradeResult and changes neither the balance nor the
\* position, the ledger holds one record per exit (one fewer than the entries)
\* and the balance is the initial capital plus the ledger's pnl; the unrealized
\* mark shows in the equity curve only, in the value of every bar after the
\* entry bar (balance + (close - entry_price) * qty * side), not in the last
\* value alone.
C13_OpenAtEnd ==
    /\ [](OpenAtEnd =>
            /\ UnclosedAtEnd
            /\ \A j \in (position.entry_idx + 2)..Len(equity_curve) :
                   \E x \in Prices :
                       equity_curve[j] =
                           RAdd(balance,
                                RMul(RMul(RSub(x, position.entry_price), position.qty),
                                     R(position.side))))
    /\ [][pc' = "done" =>
            /\ pc = "mtm"
            /\ i = nBars
            /\ UNCHANGED <<balance, trades, position, equity_curve, entries>>]_vars

\* a run returned with a position that was held over two bars, the first of
\* which marked it away from the balance
C13_Witness ==
    /\ OpenAtEnd
    /\ Len(equity_curve) >= position.entry_idx + 3
    /\ equity_curve[position.entry_idx + 2] # balance

\* the run has never left FLAT: no entry, no trade, every equity value is the
\* initial capital
NeverLeftFlat ==
    /\ entries = 0
    /\ position = None
    /\ trades = <<>>
    /\ balance = initial_capital
    /\ \A j \in 1..Len(equity_curve) : equity_curve[j] = initial_capital

\* C14: while the volatility estimate has been unavailable on every bar read
\* (NaN on each of them, or no "atr" column at all), the run has made no trade,
\* has never left FLAT and every equity value equals initial_capital, whatever
\* the prices and the signals (nonzero ones included) were.
C14_NoVolatilityNoTrade == ~vol_seen => NeverLeftFlat

\* a run over at least two bars returned after signals were given and the
\* volatility was NaN on every bar
C14_Witness ==
    /\ pc = "done"
    /\ nBars >= 2
    /\ has_atr
    /\ ~vol_seen
    /\ sig_seen
    /\ RGt(risk_per_trade, Zero)

\* C15: while the signal has been zero on every bar read, the state has stayed
\* FLAT: the ledger is empty and every equity value equals initial_capital,
\* whatever the prices and the volatility values were.
C15_ZeroSignalNoTrade == ~sig_seen => NeverLeftFlat

\* a run over at least two bars returned after a usable volatility was read
\* and the signal was zero on every bar
C15_Witness ==
    /\ pc = "done"
    /\ nBars >= 2
    /\ ~sig_seen
    /\ vol_seen
    /\ Len(equity_curve) = nBars
    /\ RGt(risk_per_trade, Zero)

C17_Terminates ==
    /\ <>(pc = "done" /\ i = nBars /\ Len(equity_curve) = nBars)
    /\ [][/\ i' # i => (pc = "entry" /\ i' = i + 1 /\ i < nBars)
          /\ equity_curve' # equity_curve
                => (pc = "mtm" /\ Len(equity_curve) = i
                    /\ Len(equity_curve') = i + 1)
          /\ pc' = "done" => i = nBars]_vars

\* the longest run returned after every signalled entry was skipped
C17_Witness ==
    /\ pc = "done"
    /\ i = MaxBars
    /\ Len(equity_curve) = MaxBars
    /\ sig_seen
    /\ entries = 0

\* C18: when the stop or the take-profit of the open position triggers on
\* bar i, the exit step appends exactly one TradeResult, carrying exit_idx = i
\* and the position's side, entry_price, qty and entry_idx; its pnl is
\* (exit_price - entry_price_net) * qty * side - qty * exit_price * fee_pct,
\* the balance grows by exactly that pnl, and the state becomes FLAT.
C18_ExitTransition ==
    [][(pc = "exit" /\ position # None
            /\ (StopHit(position, p) \/ TpHit(position, p)))
         => /\ Len(trades') = Len(trades) + 1
            /\ SubSeq(trades', 1, Len(trades)) = trades
            /\ Last(trades').exit_idx = i
            /\ Last(trades').side = position.side
            /\ Last(trades').entry_price = position.entry_price
            /\ Last(trades').qty = position.qty
            /\ Last(trades').entry_idx = position.entry_idx
            /\ Last(trades').pnl =
                   RSub(RMul(RMul(RSub(Last(trades').exit_price,
                                       position.entry_price_net),
                                  position.qty),
                             R(position.side)),
                        RMul(RMul(position.qty, Last(trades').exit_price), fee_pct))
            /\ balance' = RAdd(balance, Last(trades').pnl)
            /\ position' = None]_vars

\* a short position has just been closed by its take-profit, with a fee and
\* slippage charged
C18_Witness ==
    /\ pc = "entry"
    /\ ExitedThisBar
    /\ position = None
    /\ exit_reason = "tp"
    /\ Last(trades).side = -1
    /\ RGt(fee_pct, Zero)
    /\ RGt(slippage_pct, Zero)

\* the entry fee of a position: qty * entry_price * fee_pct
EntryFee(pos) == RMul(RMul(pos.qty, pos.entry_price), fee_pct)

\* nothing is debited at entry, and each realized pnl carries the entry fee
\* and the exit fee: (exit_price - entry_price) * qty * side
\* - qty * entry_price * fee_pct - qty * exit_price * fee_pct
TwoFeesInPnl ==
    /\ balance = RAdd(initial_capital, SumPnl(trades))
    /\ \A k \in 1..Len(trades) :
           trades[k].pnl =
               RSub(RSub(RMul(RMul(RSub(trades[k].exit_price,
                                        trades[k].entry_price),
                                   trades[k].qty),
                              R(trades[k].side)),
                         RMul(RMul(trades[k].qty, trades[k].entry_price), fee_pct)),
                    RMul(RMul(trades[k].qty, trades[k].exit_price), fee_pct))

\* C19: every open position with qty > 0 has entry_price_net =
\* entry_price + sign * (entry_fee / qty), nothing is debited at entry, and
\* every realized pnl carries exactly the entry fee and the exit fee.
\* (Fails for 0 < qty < 1e-9, where the entry fee is divided by 1e-9.)
C19_NetEntryPrice ==
    /\ (position # None /\ RGt(position.qty, Zero)) =>
           position.entry_price_net =
               RAdd(position.entry_price,
                    RMul(R(position.side), RDiv(EntryFee(position), position.qty)))
    /\ TwoFeesInPnl

\* C20: slippage moves the execution price against the trader.  A long entry
\* and a short exit (the buys) fill at close * (1 + slippage_pct), a short
\* entry and a long exit (the sells) at close * (1 - slippage_pct); so with
\* slippage_pct >= 0 (closes are >= 0) every buy fills at or above the close
\* and every sell at or below it.
C20_SlippageAgainst ==
    [][/\ (position = None /\ position' # None)
            => /\ position'.entry_price =
                      RMul(p, IF position'.side = 1 THEN RAdd(One, slippage_pct)
                              ELSE RSub(One, slippage_pct))
               /\ RGe(slippage_pct, Zero)
                      => IF position'.side = 1 THEN RGe(position'.entry_price, p)
                         ELSE RLe(position'.entry_price, p)
       /\ Len(trades') = Len(trades) + 1
            => /\ Last(trades').exit_price =
                      RMul(p, IF Last(trades').side = 1 THEN RSub(One, slippage_pct)
                              ELSE RAdd(One, slippage_pct))
               /\ RGe(slippage_pct, Zero)
                      => IF Last(trades').side = 1 THEN RLe(Last(trades').exit_price, p)
                         ELSE RGe(Last(trades').exit_price, p)]_vars

\* a long bought above its close has just been sold below the close of the bar
C20_Witness ==
    /\ pc = "entry"
    /\ ExitedThisBar
    /\ RGt(slippage_pct, Zero)
    /\ Last(trades).side = 1
    /\ RLt(Last(trades).exit_price, p)
    /\ Last(trades).entry_price # Last(trades).exit_price

\* C21: every open position has stop = entry_price - side * atr * atr_stop_mult
\* and tp = entry_price + side * atr * atr_stop_mult * tp_mult for the positive
\* atr of its entry bar, with the stop on the unfavourable side of the entry
\* price and the take-profit on the favourable side (long: stop < entry_price
\* < tp; short: tp < entry_price < stop).
\* (The sides fail for a multiplier <= 0, which backtest accepts.)
C21_StopTpSides ==
    position # None =>
        /\ \E x \in {y \in Atrs : ~isnan(y)} :
               /\ RGt(x, Zero)
               /\ position.stop =
                      RSub(position.entry_price,
                           RMul(R(position.side), RMul(x, atr_stop_mult)))
               /\ position.tp =
                      RAdd(position.entry_price,
                           RMul(R(position.side),
                                RMul(RMul(x, atr_stop_mult), tp_mult)))
        /\ IF position.side = 1
           THEN /\ RLt(position.stop, position.entry_price)
                /\ RLt(position.entry_price, position.tp)
           ELSE /\ RLt(position.tp, position.entry_price)
                /\ RLt(position.entry_price, position.stop)

\* the close lies strictly between the stop and the take-profit
Between(pos, price) ==
    \/ RLt(pos.stop, price) /\ RLt(price, pos.tp)
    \/ RLt(pos.tp, price) /\ RLt(price, pos.stop)

\* C22: exits are decided on the close alone.  On a bar whose close lies
\* strictly between the stop and the take-profit of the open position the exit
\* step appends no TradeResult and leaves the balance and the position as they
\* are; a position is closed on bar i only if close[i] meets its stop or its
\* take-profit condition.
\* (The first half fails when the take-profit lies beyond the stop.)
C22_CloseOnly ==
    [][(pc = "exit" /\ position # None)
         => /\ Between(position, p)
                  => /\ trades' = trades
                     /\ balance' = balance
                     /\ position' = position
            /\ trades' # trades
                  => IF position.side = 1
                     THEN RLe(p, position.stop) \/ RGe(p, position.tp)
                     ELSE RGe(p, position.stop) \/ RLe(p, position.tp)]_vars

\* C23: while a position is open and has not exited on bar i, signal[i] has
\* no effect: whatever its value, the entry step leaves the position (side,
\* quantity, levels), the ledger and the balance as they are; a position is
\* assigned by the entry step only from the FLAT state and on a nonzero signal.
C23_SignalIgnoredWhileOpen ==
    [][pc = "entry"
         => /\ position # None
                  => /\ position' = position
                     /\ entries' = entries
                     /\ trades' = trades
                     /\ balance' = balance
            /\ position' # position => (position = None /\ s # 0)]_vars

\* the entry step is reached with a position held over the bar and a usable
\* signal for the opposite side
C23_Witness ==
    /\ pc = "entry"
    /\ position # None
    /\ ~ExitedThisBar
    /\ s = -position.side
    /\ a = One
    /\ RGt(risk_per_trade, Zero)
    /\ RGt(balance, Zero)

\* C24: a position is immutable while open.  No step changes the side,
\* quantity, entry_price, entry_price_net, stop, take-profit or entry index of
\* an open position: a step either leaves the position as it is or deletes it,
\* and it is deleted only by the exit step, whose TradeResult reports the
\* quantity, side, entry_price and entry index fixed at entry.
C24_PositionImmutable ==
    [][position # None
         => \/ position' = position
            \/ /\ position' = None
               /\ pc = "exit"
               /\ Len(trades') = Len(trades) + 1
               /\ Last(trades').qty = position.qty
               /\ Last(trades').side = position.side
               /\ Last(trades').entry_price = position.entry_price
               /\ Last(trades').entry_idx = position.entry_idx]_vars

\* a position was held over a whole bar, in profit at its close, and was
\* closed on a later bar
C24_Witness ==
    /\ pc = "entry"
    /\ ExitedThisBar
    /\ Last(trades).exit_idx >= Last(trades).entry_idx + 2
    /\ Len(equity_curve) >= 2
    /\ RGt(equity_curve[Len(equity_curve) - 1],
           RSub(balance, Last(trades).pnl))

\* C25: the return of every TradeResult is its pnl divided by the initial
\* account capital, whatever the balance has become: ret = pnl / initial_capital
\* for every trade of the ledger.
C25_ReturnOnInitialCapital ==
    \A k \in 1..Len(trades) :
        trades[k].ret = RDiv(trades[k].pnl, initial_capital)

\* max(0, bal * risk / max(1e-8, vol * mult)), written out
SizerFormula(bal, risk, vol, mult) ==
    LET d == RMul(vol, mult)
        unit == IF RGt(d, Eps8) THEN d ELSE Eps8
        q == RDiv(RMul(bal, risk), unit)
    IN  IF RGt(q, Zero) THEN q ELSE Zero

\* C26: atr_position_size(balance, risk_fraction, volatility, price,
\* stop_multiplier) returns max(0, balance * risk_fraction /
\* max(1e-8, volatility * stop_multiplier)); the value is the same for every
\* price argument, and the call changes nothing but its result.  The quantity
\* of a position the engine opens is that value too.
C26_SizerFormula ==
    [][/\ pc = "size"
          => /\ sized' = SizerFormula(balance, risk_per_trade, a, atr_stop_mult)
             /\ \A price \in SizerPrices :
                    atr_position_size(balance, risk_per_trade, a, price,
                                      atr_stop_mult) = sized'
             /\ UNCHANGED <<params, i, p, s, a, balance, equity_curve,
                            position, trades, exit_reason, entries>>
       /\ (pc = "entry" /\ position' # position)
          => position'.qty
                 = SizerFormula(balance, risk_per_trade, a, atr_stop_mult)]_vars

\* the sizer has returned a fractional quantity for a price other than 1
C26_Witness ==
    /\ pc = "sized"
    /\ RGt(p, One)
    /\ a = R(2)
    /\ atr_stop_mult = R(2)
    /\ sized = <<1, 4>>

\* C27: a position never exits on the bar on which it was opened.  Every
\* TradeResult has exit_idx > entry_idx, and the position the exit check of
\* bar i examines was opened on an earlier bar, since the entry check of a bar
\* runs after its exit check.
C27_NoSameBarExit ==
    /\ \A k \in 1..Len(trades) : trades[k].exit_idx > trades[k].entry_idx
    /\ (position # None /\ pc \in {"mtm", "exit"}) => position.entry_idx < i
    /\ (position # None /\ pc = "entry") => position.entry_idx <= i

\* a long whose take-profit lay below its entry bar's close from the start
\* was closed by it one bar after the entry
C27_Witness ==
    /\ pc = "entry"
    /\ ExitedThisBar
    /\ exit_reason = "tp"
    /\ tp_mult = RNeg(One)
    /\ Last(trades).side = 1
    /\ Last(trades).exit_idx = Last(trades).entry_idx + 1
    /\ Last(trades).exit_price = Last(trades).entry_price

\* C28: the trade ledger is ordered and non-overlapping.  Trades appear in
\* strictly increasing exit_idx, a trade is entered no earlier than the bar on
\* which the previous one exited (on that very bar in the same-bar reopen), the
\* open position was entered no earlier than the last exit, and no more exits
\* and no more entries have happened than bars have been started.
C28_LedgerOrdered ==
    /\ \A k \in 1..(Len(trades) - 1) :
           /\ trades[k].exit_idx < trades[k + 1].exit_idx
           /\ trades[k + 1].entry_idx >= trades[k].exit_idx
    /\ (position # None /\ trades # <<>>)
           => position.entry_idx >= Last(trades).exit_idx
    /\ Len(trades) <= i
    /\ entries <= i

\* the ledger holds two trades, the second entered on the bar on which the
\* first exited
C28_Witness ==
    /\ Len(trades) = 2
    /\ trades[2].entry_idx = trades[1].exit_idx
    /\ trades[2].exit_idx = trades[1].exit_idx + 1

\* bar k began with no position held: no trade of the ledger and no open
\* position was entered before k and still held when k began
StartedFlat(k) ==
    /\ \A t \in 1..Len(trades) :
           ~(trades[t].entry_idx < k /\ k <= trades[t].exit_idx)
    /\ position # None => position.entry_idx >= k

\* the trades of the ledger that exited before bar k
ExitedBefore(k) == SelectSeq(trades, LAMBDA t : t.exit_idx < k)

\* C29: accounting identity.  At every point of the run the balance is the
\* initial capital plus the sum of pnl over all TradeResults of the ledger, and
\* for every bar k that started FLAT the equity value of the bar is the initial
\* capital plus the sum of pnl of the trades with exit_idx < k.
C29_AccountingIdentity ==
    /\ balance = RAdd(initial_capital, SumPnl(trades))
    /\ \A k \in 0..(Len(equity_curve) - 1) :
           StartedFlat(k)
               => equity_curve[k + 1]
                      = RAdd(initial_capital, SumPnl(ExitedBefore(k)))

\* a short was closed at a loss or a gain, and the bar after its exit started
\* FLAT
C29_Witness ==
    /\ pc = "exit"
    /\ position = None
    /\ trades # <<>>
    /\ Last(trades).side = -1
    /\ Last(trades).pnl # Zero
    /\ Last(trades).exit_idx < i
    /\ StartedFlat(i)

\* the costs of the trade just closed at close p: the exit slippage cost, the
\* entry fee and the exit fee
RealizationCosts(t) ==
    RAdd(RAdd(RMul(RAbs(RSub(p, t.exit_price)), t.qty),
              RMul(RMul(t.qty, t.entry_price), fee_pct)),
         RMul(RMul(t.qty, t.exit_price), fee_pct))

\* C30: realizing a position is never better than its mark.  With
\* fee_pct >= 0, slippage_pct >= 0 and close >= 0, the balance right after an
\* exit on bar i is <= equity[i], and equity[i] minus that balance is exactly
\* the exit slippage cost plus the entry fee plus the exit fee.
C30_RealizeNotAboveMark ==
    (/\ pc = "entry"
     /\ ExitedThisBar
     /\ RGe(fee_pct, Zero)
     /\ RGe(slippage_pct, Zero)
     /\ RGe(p, Zero))
        => /\ RLe(balance, Last(equity_curve))
           /\ RSub(Last(equity_curve), balance) = RealizationCosts(Last(trades))

\* C31: once the balance is <= 0, with risk_per_trade >= 0, no position is
\* opened again.  No position is held then, the sizer returns 0 for the
\* volatility of an entry, no step opens a position or changes the ledger or the balance,
\* and the equity value every later bar appends is that balance.
C31_NoEntryWhenBroke ==
    [][(RLe(balance, Zero) /\ RGe(risk_per_trade, Zero))
          => /\ position = None
             /\ position' = None
             /\ atr_position_size(balance, risk_per_trade, One, p,
                                  atr_stop_mult) = Zero
             /\ trades' = trades
             /\ balance' = balance
             /\ entries' = entries
             /\ (pc = "mtm" /\ i < nBars)
                    => equity_curve' = Append(equity_curve, balance)]_vars

\* a trade has left a negative balance, and on a later bar a signal arrives
\* with a positive volatility
C31_Witness ==
    /\ pc = "entry"
    /\ position = None
    /\ trades # <<>>
    /\ ~ExitedThisBar
    /\ RLt(balance, Zero)
    /\ RGt(risk_per_trade, Zero)
    /\ s # 0
    /\ a = One

\* C32: risk budget.  For every position opened with atr * stop_mult >= 1e-8
\* (every position here: the volatility of an entry is 1 and the multiplier
\* 1/2 or 2), quantity * |entry_price - stop| equals risk_per_trade times the
\* balance at the moment of entry, which is the balance as long as the
\* position is open.
C32_RiskBudget ==
    (position # None /\ RGe(RMul(One, atr_stop_mult), Eps8))
        => RMul(position.qty, RAbs(RSub(position.entry_price, position.stop)))
               = RMul(risk_per_trade, balance)

\* a second position is open, sized from a balance a closed trade has changed
C32_Witness ==
    /\ position # None
    /\ trades # <<>>
    /\ balance # initial_capital
    /\ atr_stop_mult = R(2)
    /\ pc = "mtm"

\* C33: entry sizing uses the realized balance at the moment of entry.  The
\* quantity of the open position is the sizer's result for the balance, which
\* has not changed since the entry and is the initial capital plus the pnl of
\* every trade of the ledger, the one closed on the entry bar included; the
\* mark-to-market of the bar plays no part.
C33_SizedFromRealizedBalance ==
    position # None
        => /\ position.qty
                  = SizerFormula(balance, risk_per_trade, One, atr_stop_mult)
           /\ balance = RAdd(initial_capital, SumPnl(trades))
           /\ \A k \in 1..Len(trades) : trades[k].exit_idx <= position.entry_idx

\* a position was opened on the bar on which the previous one was closed, and
\* the equity value of that bar differs from the realized balance
C33_Witness ==
    /\ position # None
    /\ trades # <<>>
    /\ Last(trades).exit_idx = position.entry_idx
    /\ equity_curve[position.entry_idx + 1] # balance
    /\ SizerFormula(equity_curve[position.entry_idx + 1], risk_per_trade, One,
                    atr_stop_mult) # position.qty

\* 2^n
RECURSIVE Pow2(_)
Pow2(n) == IF n = 0 THEN 1 ELSE 2 * Pow2(n - 1)

\* the attempts that raised an Exception
FailedCalls == {j \in 1..Len(calls) : calls[j] \in Exceptions}

\* C34: _retry calls the wrapped function at most retries times; a successful
\* call is the last call, and its result is what _retry returns; the sleep
\* after the j-th failure lasts backoff * 2^(j-1); and after retries
\* consecutive failures _retry raises the exception of the last attempt.
C34_Retry ==
    /\ Len(calls) <= retries
    /\ \A j \in 1..Len(calls) : calls[j] = "ok" => j = Len(calls)
    /\ bk_pc \in {"normalize", "returned"}
           <=> (calls # <<>> /\ calls[Len(calls)] = "ok")
    /\ Len(slept) = Cardinality(FailedCalls)
    /\ \A j \in 1..Len(slept) : slept[j] = RMul(backoff, R(Pow2(j - 1)))
    /\ (Cardinality(FailedCalls) = retries /\ bk_pc \notin {"create_order", "retry"})
           => /\ bk_pc = "raised"
              /\ \E j \in 1..Len(calls) : j = Len(calls) /\ raised = calls[j]

\* C35: all attempts of one create_order call carry the same clientOrderId:
\* the caller's when params holds the key, else one generated before the first
\* attempt; and the order create_order returns holds an "orderId" entry.
C35_SameClientOrderId ==
    /\ \A j \in 1..Len(attempt_ids) :
           /\ attempt_ids[j] = attempt_ids[1]
           /\ IF caller_params["clientOrderId"] # Absent
              THEN attempt_ids[j] = caller_params["clientOrderId"]
              ELSE attempt_ids[j] \in GeneratedIds
    /\ bk_pc = "returned" => order["orderId"] # Absent

\* an order without "id" and "orderId" is returned on the third attempt of a
\* call that passed no clientOrderId
C35_Witness ==
    /\ bk_pc = "returned"
    /\ Len(attempt_ids) = 3
    /\ caller_params["clientOrderId"] = Absent
    /\ ret["id"] = Absent
    /\ ret["orderId"] = Absent
    /\ order["orderId"] = attempt_ids[1]

\* the iterations of live.py in which create_order was called and returned
LivePlaced == SelectSeq(live_log, LAMBDA r : r.side # "none" /\ r.ok)

\* the iterations of live.py in which create_order was called
LiveSent == SelectSeq(live_log, LAMBDA r : r.side # "none")

\* C36: in the live.py loop the orders placed alternate buy, sell, buy, ...
\* starting with a buy; a sell is sent only while last_order is "buy" and a
\* buy only while last_order is None; a create_order that raises leaves
\* last_order unchanged, so that the next order sent is the same order, and
\* it is sent in every later iteration that has the same signal.
C36_OrdersAlternate ==
    /\ \A j \in 1..Len(LivePlaced) :
           LivePlaced[j].side = (IF j % 2 = 1 THEN "buy" ELSE "sell")
    /\ \A j \in 1..Len(live_log) :
           /\ live_log[j].side = "sell" => live_log[j].before = "buy"
           /\ live_log[j].side = "buy" => live_log[j].before = PyNone
           /\ (live_log[j].side # "none" /\ ~live_log[j].ok)
                  => live_log[j].after = live_log[j].before
    /\ \A j \in 1..(Len(LiveSent) - 1) :
           ~LiveSent[j].ok => LiveSent[j + 1].side = LiveSent[j].side
    /\ \A j \in 1..Len(live_log) : \A k \in 1..Len(live_log) :
           (/\ j < k
            /\ live_log[j].side # "none"
            /\ ~live_log[j].ok
            /\ live_log[k].signal = live_log[j].signal
            /\ \A m \in (j + 1)..(k - 1) : live_log[m].side = "none")
               => live_log[k].side = live_log[j].side

\* a buy failed, was sent again after an iteration without a trade and was
\* placed, and a sell has been placed after it
C36_Witness ==
    /\ Len(live_log) = 4
    /\ live_log[1].side = "buy" /\ ~live_log[1].ok
    /\ live_log[2].side = "none"
    /\ live_log[3].side = "buy" /\ live_log[3].ok
    /\ live_log[4].side = "sell" /\ live_log[4].ok

\* the reason for which the trading logic closes a held position
AutoExpectedReason(it) ==
    IF it.signal = "sell" THEN "SELL"
    ELSE IF RLe(it.price, it.stop) THEN "STOP_LOSS"
    ELSE IF RGe(it.price, it.tp) THEN "TAKE_PROFIT"
    ELSE "none"

\* C37: in the auto_trader loop, whenever an iteration starts, auto_last_order is
\* "buy" exactly when auto_entry_price, auto_stop_loss and auto_take_profit are all set; an
\* iteration sends at most one order; a held position is closed by a sell for
\* the sell signal, else for the stop-loss, else for the take-profit, else it
\* is held; and a buy is sent only when no position is held.
C37_AutoTraderState ==
    /\ (auto_last_order = "buy")
           <=> (auto_entry_price # Unset /\ auto_stop_loss # Unset /\ auto_take_profit # Unset)
    /\ Len(auto_iter.orders) <= 1
    /\ \A j \in 1..Len(auto_iter.orders) :
           auto_iter.orders[j].side = "buy" => auto_iter.before # "buy"
    /\ (auto_iter.reached /\ auto_iter.before = "buy")
           => IF AutoExpectedReason(auto_iter) = "none"
              THEN auto_iter.orders = <<>>
              ELSE /\ Len(auto_iter.orders) = 1
                   /\ auto_iter.orders[1].side = "sell"
                   /\ auto_iter.orders[1].reason = AutoExpectedReason(auto_iter)

\* with both percentages 0 the price equals the stop-loss and the take-profit
\* of the held position, and the position was closed for the stop-loss
C37_Witness ==
    /\ auto_iter.before = "buy"
    /\ auto_iter.signal = "hold"
    /\ auto_iter.price = auto_iter.stop
    /\ auto_iter.price = auto_iter.tp
    /\ Len(auto_iter.orders) = 1
    /\ auto_iter.orders[1].reason = "STOP_LOSS"
    /\ auto_iter.orders[1].ok
    /\ auto_last_order = PyNone

\* the fee_pct the claim gives for a dict
ExpectedFee(c) ==
    IF c["fee_pct"] # Missing THEN c["fee_pct"]
    ELSE IF c["fee_rate"] # Missing THEN c["fee_rate"]
    ELSE IF c["fee"] # Missing THEN c["fee"]
    ELSE IF c["commission"] # Missing THEN c["commission"]
    ELSE c["fees"]

\* the slippage_pct the claim gives for a dict
ExpectedSlippage(c) ==
    IF c["slippage_pct"] # Missing THEN c["slippage_pct"]
    ELSE IF c["slippage_bp"] # Missing
    THEN RDiv(c["slippage_bp"], R(10000))
    ELSE IF c["slippage_bps"] # Missing
    THEN RDiv(c["slippage_bps"], R(10000))
    ELSE c["slippage"]

\* C38: normalize_fee_slippage leaves the dict it is passed as it was; in the
\* dict it returns an existing fee_pct or slippage_pct is kept, else fee_pct is
\* the value of the first present of fee_rate, fee, commission, fees and
\* slippage_pct is slippage_bp / 10000, else slippage_bps / 10000, else
\* slippage; every other key is as in the input; and applying the function to
\* its result returns the result.
C38_NormalizeFeeSlippage ==
    /\ cfg_in = cfg_orig
    /\ cfg_pc \in {"once", "twice"}
           => /\ cfg_out["fee_pct"] = ExpectedFee(cfg_orig)
              /\ cfg_out["slippage_pct"] = ExpectedSlippage(cfg_orig)
              /\ \A k \in CfgKeys \ {"fee_pct", "slippage_pct"} :
                     cfg_out[k] = cfg_orig[k]
    /\ cfg_pc = "twice" => cfg_out2 = cfg_out

\* the function was applied twice to a dict without fee_pct and slippage_pct
\* that holds fee and fees, slippage_bp and slippage_bps, with different values
C38_Witness ==
    /\ cfg_pc = "twice"
    /\ cfg_orig["fee_pct"] = Missing
    /\ cfg_orig["fee_rate"] = Missing
    /\ cfg_orig["fee"] = One
    /\ cfg_orig["fees"] = R(25)
    /\ cfg_orig["slippage_pct"] = Missing
    /\ cfg_orig["slippage_bp"] = R(25)
    /\ cfg_orig["slippage_bps"] = One
    /\ cfg_out["fee_pct"] = One
    /\ cfg_out["slippage_pct"] = <<1, 400>>

====
